---- MODULE Spec2Model ----
(***************************************************************************)
(* py_auto_cache: a memoization layer (AutoCache) over a namespacing       *)
(* wrapper (CacheWrapper) over a storage backend (DictCache).              *)
(*                                                                         *)
(* Python byte strings are TLA+ strings; every other Python value is a     *)
(* tagged record, so that transcode / str() / pickle are conversions that  *)
(* can be got wrong.  Each method is a pure operator from the backend's    *)
(* dictionary (and the clock) to a result record [ret, exc, dict]; the     *)
(* actions apply these operators to the state.                             *)
(***************************************************************************)
EXTENDS Integers, Sequences, FiniteSets, TLC

VARIABLES
    now,        \* time.time(), in whole ticks
    dict,       \* DictCache._dict : physical key -> (value, stored_at, expire_seconds)
    last,       \* the operation performed by the latest step, with its inputs and result
    shadow,     \* per raw key: what the latest write through the backend API asked for
    run_times,  \* per argument: how often the underlying function has been invoked
    lastRet,    \* per argument: the value the function returned at its latest normal return
    called,     \* per argument: whether a plain memoized call has been made
    pure,       \* TRUE while only plain, normally returning memoized calls have happened
    ops,        \* number of steps taken, where the length of a run is bounded
    gets,       \* number of CacheWrapper.get calls made
    sinceClear, \* the CacheWrapper.get calls since the latest CacheWrapper.clear, if any
    default_expiry, \* CacheWrapper._default_expiry
    dispatched, \* Dispatcher._dispatched_caches: the dict of each backend, primary first
    _cache_dict, \* MG._cache_dict: (namespace, default_expiry, wrapped_cache) -> AutoCache
    threads     \* per caller running concurrently: where it is in its call, and its locals

vars == <<now, dict, last, shadow, run_times, lastRet, called, pure, ops, gets, sinceClear,
          default_expiry, dispatched, _cache_dict, threads>>
memoGhosts == <<run_times, lastRet, called, pure>>
memoVars == <<memoGhosts, ops>>
wrapVars == <<gets, sinceClear, default_expiry>>

(***************************************************************************)
(* Bounds of the model                                                     *)
(***************************************************************************)
MaxTime == 2
MaxWrapTime == 1
MaxGets == 3
MaxOps == 3

(***************************************************************************)
(* Python values                                                           *)
(***************************************************************************)
PyNone == [ty |-> "NoneType", s |-> "", n |-> 0]
Str(s) == [ty |-> "str", s |-> s, n |-> 0]
Unicode(s) == [ty |-> "unicode", s |-> s, n |-> 0]
PyInt(n) == [ty |-> "int", s |-> "", n |-> n]
\* a float with a whole value
PyFloat(n) == [ty |-> "float", s |-> "", n |-> n]
PyBool(b) == [ty |-> "bool", s |-> "", n |-> IF b THEN 1 ELSE 0]

\* expire_seconds=None
NoneTtl == -1

\* str(x) of Python 2
PyStr(x) ==
    CASE x.ty = "str" -> x.s
      [] x.ty = "unicode" -> x.s
      [] x.ty = "int" -> ToString(x.n)
      [] x.ty = "float" -> ToString(x.n) \o ".0"
      [] x.ty = "bool" -> IF x.n = 1 THEN "True" ELSE "False"
      [] OTHER -> "None"

\* a unicode object is encoded to utf-8 (the model's unicode objects are ASCII
\* only, whose utf-8 bytes are their characters); anything else goes through str()
transcode(s1) ==
    IF s1.ty = "str" THEN s1
    ELSE IF s1.ty = "unicode" THEN Str(s1.s)
    ELSE Str(PyStr(s1))

(***************************************************************************)
(* Strings                                                                 *)
(***************************************************************************)
Ascii == " !\"#$%&'()*+,-./0123456789:;<=>?@ABCDEFGHIJKLMNOPQRSTUVWXYZ[\\]^_abcdefghijklmnopqrstuvwxyz{|}~"

\* the first position of character c in s, 0 when it is not there
IndexOf(c, s) ==
    LET at == {i \in 1..Len(s) : SubSeq(s, i, i) = c}
    IN  IF at = {} THEN 0 ELSE CHOOSE i \in at : \A j \in at : i <= j

\* the rank of c in ASCII order (all that a class range compares); 0 for a
\* character outside the printable set above
Ord(c) == IndexOf(c, Ascii)

Digits == "0123456789"

\* str.isdigit()
isdigit(s) == s # "" /\ \A i \in 1..Len(s) : IndexOf(SubSeq(s, i, i), Digits) > 0

\* int(s) for a string of digits
RECURSIVE IntOfDigits(_, _)
IntOfDigits(s, acc) ==
    IF s = "" THEN acc
    ELSE IntOfDigits(Tail(s), 10 * acc + IndexOf(Head(s), Digits) - 1)

startswith(s, p) == Len(s) >= Len(p) /\ SubSeq(s, 1, Len(p)) = p
endswith(s, p) == Len(s) >= Len(p) /\ SubSeq(s, Len(s) - Len(p) + 1, Len(s)) = p

(***************************************************************************)
(* fnmatch.fnmatch (posix: case sensitive), as fnmatch.translate reads a   *)
(* pattern: * ? [seq] [!seq], a '[' with no closing ']' is literal.        *)
(***************************************************************************)
\* position of the first ']' of p at or after position j, 0 if none
ClassEnd(p, j) ==
    LET at == {i \in j..Len(p) : SubSeq(p, i, i) = "]"}
    IN  IF at = {} THEN 0 ELSE CHOOSE i \in at : \A k \in at : i <= k

BracketEnd(p) ==
    LET j1 == IF Len(p) >= 1 /\ SubSeq(p, 1, 1) = "!" THEN 2 ELSE 1
        j2 == IF Len(p) >= j1 /\ SubSeq(p, j1, j1) = "]" THEN j1 + 1 ELSE j1
    IN  ClassEnd(p, j2)

\* whether character c is in the regular-expression class body 'stuff'
RECURSIVE InClass(_, _)
InClass(c, stuff) ==
    IF stuff = "" THEN FALSE
    ELSE IF Len(stuff) >= 3 /\ SubSeq(stuff, 2, 2) = "-"
         THEN (Ord(Head(stuff)) <= Ord(c) /\ Ord(c) <= Ord(SubSeq(stuff, 3, 3)))
              \/ InClass(c, SubSeq(stuff, 4, Len(stuff)))
    ELSE Head(stuff) = c \/ InClass(c, Tail(stuff))

\* the length of the longest prefix of pat that holds no special character
LiteralLen(pat) ==
    LET at == {i \in 1..Len(pat) : SubSeq(pat, i, i) \in {"*", "?", "["}}
    IN  IF at = {} THEN Len(pat) ELSE (CHOOSE i \in at : \A k \in at : i <= k) - 1

RECURSIVE fnmatch(_, _)
fnmatch(name, pat) ==
    IF pat = "" THEN name = ""
    ELSE LET c == Head(pat)
             rest == Tail(pat)
         IN  IF c = "*"
             THEN \E i \in 0..Len(name) : fnmatch(SubSeq(name, i + 1, Len(name)), rest)
             ELSE IF c = "?"
             THEN name # "" /\ fnmatch(Tail(name), rest)
             ELSE IF c = "[" /\ BracketEnd(rest) > 0
             THEN LET j == BracketEnd(rest)
                      stuff == SubSeq(rest, 1, j - 1)
                      neg == Head(stuff) = "!"
                      body == IF neg THEN Tail(stuff) ELSE stuff
                  IN  /\ name # ""
                      /\ (InClass(Head(name), body) # neg)
                      /\ fnmatch(Tail(name), SubSeq(rest, j + 1, Len(rest)))
             ELSE IF c = "["
             THEN name # "" /\ Head(name) = c /\ fnmatch(Tail(name), rest)
             ELSE LET n == LiteralLen(pat)
                  IN  /\ Len(name) >= n
                      /\ SubSeq(name, 1, n) = SubSeq(pat, 1, n)
                      /\ fnmatch(SubSeq(name, n + 1, Len(name)), SubSeq(pat, n + 1, Len(pat)))

(***************************************************************************)
(* Results and exceptions.  An exception is the set of the names of the    *)
(* classes the raised object is an instance of; NoExc is a normal return.  *)
(***************************************************************************)
NoExc == {}
ParameterError == {"ParameterError", "DictClientError", "ClientError", "CacheError"}
\* ValueError re-raised by engine_error_wrapper, then by dict_error_wrapper
WrappedValueError == {"ValueError", "ClientError", "DictClientError", "CacheError"}

Res(ret, exc, d) == [ret |-> ret, exc |-> exc, dict |-> d]

Entry(v, s, ttl) == [v |-> v, s |-> s, ttl |-> ttl]
Put(d, k, e) == [x \in DOMAIN d \cup {k} |-> IF x = k THEN e ELSE d[x]]
Remove(d, ks) == [x \in DOMAIN d \ ks |-> d[x]]

(***************************************************************************)
(* DictCache (caches/dict_cache.py) and the defaults of Cache (cache.py)   *)
(***************************************************************************)
\* a bug: an entry expires one tick early (>= for >)
DictCache_get_early(d, t, key) ==
    LET k == transcode(key).s
    IN  IF k \notin DOMAIN d THEN Res(PyNone, NoExc, d)
        ELSE IF d[k].ttl # NoneTtl /\ t - d[k].s >= d[k].ttl
             THEN Res(PyNone, NoExc, Remove(d, {k}))
        ELSE Res(Str(d[k].v), NoExc, d)

DictCache_get(d, t, key) ==
    LET k == transcode(key).s
    IN  IF k \notin DOMAIN d THEN Res(PyNone, NoExc, d)
        ELSE IF d[k].ttl # NoneTtl /\ t - d[k].s > d[k].ttl
             THEN Res(PyNone, NoExc, Remove(d, {k}))
        ELSE Res(Str(d[k].v), NoExc, d)

\* a bug: only_if_old is tested like only_if_new
DictCache_set_old_as_new(d, t, key, value, expire_seconds, only_if_new, only_if_old) ==
    LET k == transcode(key).s
        v == transcode(value).s
        Store(g) ==
            LET key_in_cache == g.ret # PyNone
                set_flag == /\ ~(only_if_new /\ key_in_cache)
                            /\ ~(only_if_old /\ key_in_cache)
            IN  IF set_flag
                THEN Res(PyBool(TRUE), NoExc, Put(g.dict, k, Entry(v, t, expire_seconds)))
                ELSE Res(PyBool(FALSE), NoExc, g.dict)
    IN  IF only_if_new /\ only_if_old THEN Res(PyNone, ParameterError, d)
        ELSE Store(DictCache_get(d, t, Str(k)))

DictCache_set(d, t, key, value, expire_seconds, only_if_new, only_if_old) ==
    LET k == transcode(key).s
        v == transcode(value).s
        Store(g) ==
            LET key_in_cache == g.ret # PyNone
                set_flag == /\ ~(only_if_new /\ key_in_cache)
                            /\ ~(only_if_old /\ ~key_in_cache)
            IN  IF set_flag
                THEN Res(PyBool(TRUE), NoExc, Put(g.dict, k, Entry(v, t, expire_seconds)))
                ELSE Res(PyBool(FALSE), NoExc, g.dict)
    IN  IF only_if_new /\ only_if_old THEN Res(PyNone, ParameterError, d)
        ELSE Store(DictCache_get(d, t, Str(k)))

\* a bug: only the first key of the list is deleted
DictCache_delete_first(d, keys) ==
    LET ks == {transcode(key).s : key \in keys} \cap DOMAIN d
        k1 == IF ks = {} THEN {} ELSE {CHOOSE k \in ks : TRUE}
    IN  Res(PyInt(Cardinality(k1)), NoExc, Remove(d, k1))

\* keys: the set of the elements of the list given
DictCache_delete(d, keys) ==
    LET ks == {transcode(key).s : key \in keys} \cap DOMAIN d
    IN  Res(PyInt(Cardinality(ks)), NoExc, Remove(d, ks))

\* the list returned, as the set of its elements (dict order is unspecified)
DictCache_get_keys(d, pattern) ==
    {key \in DOMAIN d : fnmatch(key, transcode(pattern).s)}

\* a bug: a value that is not a number counts as absent and is overwritten
Cache_increase_resets(d, t, key, amount) ==
    LET Increase(g) ==
            LET value == g.ret
                increased_value ==
                    IF value # PyNone /\ value.ty \in {"str", "unicode"} /\ isdigit(value.s)
                    THEN PyStr(PyInt(IntOfDigits(value.s, 0) + amount))
                    ELSE PyStr(PyInt(amount))
                Stored(w) == Res(Str(increased_value), w.exc, w.dict)
            IN  Stored(DictCache_set(g.dict, t, key, Str(increased_value), NoneTtl,
                                     FALSE, FALSE))
    IN  Increase(DictCache_get(d, t, key))

Cache_increase(d, t, key, amount) ==
    LET Increase(g) ==
            LET value == g.ret
                increased_value ==
                    IF value = PyNone THEN PyStr(PyInt(amount))
                    ELSE PyStr(PyInt(IntOfDigits(value.s, 0) + amount))
                Stored(w) == Res(Str(increased_value), w.exc, w.dict)
            IN  IF value = PyNone \/ (value.ty \in {"str", "unicode"} /\ isdigit(value.s))
                THEN Stored(DictCache_set(g.dict, t, key, Str(increased_value), NoneTtl,
                                          FALSE, FALSE))
                ELSE Res(PyNone, WrappedValueError, g.dict)
    IN  Increase(DictCache_get(d, t, key))

DictCache_increase(d, t, key, amount) == Cache_increase(d, t, transcode(key), amount)

Cache_clear(d, pattern) ==
    DictCache_delete(d, {Str(k) : k \in DictCache_get_keys(d, pattern)})

DictCache_clear(d, pattern) == Cache_clear(d, transcode(pattern))

\* [self.get(key) for key in keys]: the gets run in order, each on the dict
\* the one before left
RECURSIVE Cache_multi_get(_, _, _)
Cache_multi_get(d, t, keys) ==
    IF keys = <<>> THEN Res(<<>>, NoExc, d)
    ELSE LET First(g) ==
                 LET Rest(r) == Res(<<g.ret>> \o r.ret, NoExc, r.dict)
                 IN  Rest(Cache_multi_get(g.dict, t, Tail(keys)))
         IN  First(DictCache_get(d, t, Head(keys)))

DictCache_multi_get(d, t, keys) ==
    Cache_multi_get(d, t, [i \in DOMAIN keys |-> transcode(keys[i])])

(***************************************************************************)
(* Dispatcher (caches/dispatcher.py).  caches is self._dispatched_caches,  *)
(* the dict of each backend, the primary at index 1 (Python's index 0).    *)
(* A result is [ret, exc, caches].                                         *)
(***************************************************************************)
DRes(ret, exc, caches) == [ret |-> ret, exc |-> exc, caches |-> caches]

\* the outcome r of a call on the primary, as an outcome of the dispatcher
OnPrimary(caches, r) == DRes(r.ret, r.exc, [caches EXCEPT ![1] = r.dict])

Dispatcher_get(caches, t, key) == OnPrimary(caches, DictCache_get(caches[1], t, key))

\* a bug: the value is written to every backend
Dispatcher_set_all(caches, t, key, value, expire_seconds, only_if_new, only_if_old) ==
    DRes(DictCache_set(caches[1], t, key, value, expire_seconds, only_if_new, only_if_old).ret,
         DictCache_set(caches[1], t, key, value, expire_seconds, only_if_new, only_if_old).exc,
         [i \in DOMAIN caches |->
             DictCache_set(caches[i], t, key, value, expire_seconds, only_if_new,
                           only_if_old).dict])

Dispatcher_set(caches, t, key, value, expire_seconds, only_if_new, only_if_old) ==
    OnPrimary(caches,
              DictCache_set(caches[1], t, key, value, expire_seconds, only_if_new, only_if_old))

\* a bug: the counts are listed last backend first
Dispatcher_delete_reversed(caches, keys) ==
    DRes([i \in DOMAIN caches |-> DictCache_delete(caches[Len(caches) + 1 - i], keys).ret],
         NoExc,
         [i \in DOMAIN caches |-> DictCache_delete(caches[i], keys).dict])

Dispatcher_delete(caches, keys) ==
    DRes([i \in DOMAIN caches |-> DictCache_delete(caches[i], keys).ret],
         NoExc,
         [i \in DOMAIN caches |-> DictCache_delete(caches[i], keys).dict])

Dispatcher_get_keys(caches, pattern) == DictCache_get_keys(caches[1], pattern)

Dispatcher_increase(caches, t, key, amount) ==
    OnPrimary(caches, DictCache_increase(caches[1], t, key, amount))

Dispatcher_multi_get(caches, t, keys) ==
    OnPrimary(caches, DictCache_multi_get(caches[1], t, keys))

\* deleted_count after the first n backends are cleared
RECURSIVE deleted_count(_, _, _)
deleted_count(caches, pattern, n) ==
    IF n = 0 THEN 0
    ELSE deleted_count(caches, pattern, n - 1) + DictCache_clear(caches[n], pattern).ret.n

\* a bug: only the primary is cleared
Dispatcher_clear_primary(caches, pattern) ==
    OnPrimary(caches, DictCache_clear(caches[1], pattern))

Dispatcher_clear(caches, pattern) ==
    DRes(PyInt(deleted_count(caches, pattern, Len(caches))),
         NoExc,
         [i \in DOMAIN caches |-> DictCache_clear(caches[i], pattern).dict])

(***************************************************************************)
(* CacheWrapper (cache_wrapper.py).  ns is self._namespace, dflt is        *)
(* self._default_expiry; a prefix or suffix is a Python value, None when   *)
(* the caller leaves it out.                                               *)
(***************************************************************************)
global_ns == "py_auto_cache"
sep == ":"
cache_prefix == "cache"
monitoring_prefix == "monitoring"
hits_suffix == "hits"
misses_suffix == "misses"
time_cost_suffix == "time_cost"

\* '{...}'.format(x): str(x), so None is formatted as 'None'
\* a bug: the namespace of the instance is left out of the prefix
_get_full_prefix_global(ns, prefix) == global_ns \o sep \o PyStr(prefix) \o sep

_get_full_prefix(ns, prefix) == global_ns \o sep \o ns \o sep \o PyStr(prefix) \o sep

\* a bug: no suffix at all when the suffix is None
_get_full_suffix_absent(suffix) == IF suffix = PyNone THEN "" ELSE sep \o PyStr(suffix)

_get_full_suffix(suffix) == sep \o PyStr(suffix)

_add_namespace_to_key(ns, key, prefix, suffix) ==
    _get_full_prefix(ns, prefix) \o key \o _get_full_suffix(suffix)

_add_cache_namespace_to_key(ns, key) ==
    _add_namespace_to_key(ns, key, Str(cache_prefix), PyNone)

_add_monitoring_namespace_to_key(ns, suffix, key) ==
    _add_namespace_to_key(ns, key, Str(monitoring_prefix), Str(suffix))

_misses_key(ns) == _add_monitoring_namespace_to_key(ns, misses_suffix, "*")
_hits_key(ns) == _add_monitoring_namespace_to_key(ns, hits_suffix, "*")

\* a bug: the two counters are exchanged
CacheWrapper_get_swapped(ns, d, t, key) ==
    LET k == _add_cache_namespace_to_key(ns, key)
        Count(g) ==
            LET Counted(c) ==
                    IF c.exc # NoExc THEN Res(PyNone, c.exc, c.dict)
                    ELSE Res(g.ret, NoExc, c.dict)
            IN  IF g.ret = PyNone
                THEN Counted(DictCache_increase(g.dict, t, Str(_hits_key(ns)), 1))
                ELSE Counted(DictCache_increase(g.dict, t, Str(_misses_key(ns)), 1))
    IN  Count(DictCache_get(d, t, Str(k)))

CacheWrapper_get(ns, d, t, key) ==
    LET k == _add_cache_namespace_to_key(ns, key)
        Count(g) ==
            LET Counted(c) ==
                    IF c.exc # NoExc THEN Res(PyNone, c.exc, c.dict)
                    ELSE Res(g.ret, NoExc, c.dict)
            IN  IF g.ret = PyNone
                THEN Counted(DictCache_increase(g.dict, t, Str(_misses_key(ns)), 1))
                ELSE Counted(DictCache_increase(g.dict, t, Str(_hits_key(ns)), 1))
    IN  Count(DictCache_get(d, t, Str(k)))

\* a bug: expire_seconds or self._default_expiry, so a ttl of 0 gets the default
CacheWrapper_set_or_default(ns, dflt, d, t, key, value, expire_seconds, only_if_new, only_if_old) ==
    DictCache_set(d, t, Str(_add_cache_namespace_to_key(ns, key)), value,
                  IF expire_seconds \in {NoneTtl, 0} THEN dflt ELSE expire_seconds,
                  only_if_new, only_if_old)

CacheWrapper_set(ns, dflt, d, t, key, value, expire_seconds, only_if_new, only_if_old) ==
    DictCache_set(d, t, Str(_add_cache_namespace_to_key(ns, key)), value,
                  IF expire_seconds = NoneTtl THEN dflt ELSE expire_seconds,
                  only_if_new, only_if_old)

\* int(value or 0) of a counter key
CounterValue(d, t, key) ==
    LET g == DictCache_get(d, t, Str(key))
    IN  IF g.ret = PyNone \/ g.ret.s = "" THEN Res(PyInt(0), NoExc, g.dict)
        ELSE IF isdigit(g.ret.s) THEN Res(PyInt(IntOfDigits(g.ret.s, 0)), NoExc, g.dict)
        ELSE Res(PyNone, {"ValueError"}, g.dict)

CacheWrapper_hits(ns, d, t) == CounterValue(d, t, _hits_key(ns))

CacheWrapper_misses(ns, d, t) == CounterValue(d, t, _misses_key(ns))

\* the float returned, as the fraction num / den
CacheWrapper_hit_rate(ns, d, t) ==
    LET hits == CacheWrapper_hits(ns, d, t).ret.n
        misses == CacheWrapper_misses(ns, d, t).ret.n
        count == hits + misses
    IN  IF count = 0 THEN [num |-> 0, den |-> 1]
        ELSE [num |-> hits, den |-> hits + misses]

CacheWrapper_delete(ns, d, keys) ==
    LET raw_keys == {Str(_add_cache_namespace_to_key(ns, key)) : key \in keys}
    IN  Res(PyNone, NoExc, DictCache_delete(d, raw_keys).dict)

CacheWrapper_clear(ns, d) ==
    Res(PyNone, NoExc, DictCache_clear(d, Str(_add_cache_namespace_to_key(ns, "*"))).dict)

\* key[len(prefix):] when key starts with prefix
_remove_prefix(key, prefix) ==
    IF startswith(key, prefix) THEN SubSeq(key, Len(prefix) + 1, Len(key)) ELSE key

\* key[:-len(suffix)] when key ends with suffix ('' for the empty suffix)
_remove_suffix(key, suffix) ==
    IF endswith(key, suffix)
    THEN IF Len(suffix) = 0 THEN "" ELSE SubSeq(key, 1, Len(key) - Len(suffix))
    ELSE key

_remove_namespace_from_key(ns, key, prefix, suffix) ==
    _remove_suffix(_remove_prefix(key, _get_full_prefix(ns, prefix)), _get_full_suffix(suffix))

_keys_with_namespace(ns, d, pattern, prefix, suffix) ==
    DictCache_get_keys(d, Str(_add_namespace_to_key(ns, pattern, prefix, suffix)))

_remove_cache_namespace_from_key(ns, key) ==
    _remove_namespace_from_key(ns, key, Str(cache_prefix), PyNone)

_cache_keys_with_namespace(ns, d, pattern) ==
    _keys_with_namespace(ns, d, pattern, Str(cache_prefix), PyNone)

\* the list returned, as the set of its elements
CacheWrapper_get_keys(ns, d, pattern) ==
    {_remove_cache_namespace_from_key(ns, name) :
        name \in _cache_keys_with_namespace(ns, d, pattern)}

(***************************************************************************)
(* pickle (protocol 0) of the values the model's functions take and        *)
(* return: None, booleans and integers; [args, kwargs] for a call.         *)
(* Memo indices are written as pickle numbers them for these shapes.       *)
(***************************************************************************)
PickleItem(x) ==
    CASE x.ty = "NoneType" -> "N"
      [] x.ty = "bool" -> IF x.n = 1 THEN "I01\n" ELSE "I00\n"
      [] x.ty = "int" -> "I" \o ToString(x.n) \o "\n"
      [] OTHER -> "S'" \o PyStr(x) \o "'\n"

pickle_dumps(x) == PickleItem(x) \o "."

\* a bug: a pickled bool is loaded as the int of the same value
pickle_loads_bool_as_int(s) ==
    IF s = "N." THEN PyNone
    ELSE IF s = "I01\n." THEN PyInt(1)
    ELSE IF s = "I00\n." THEN PyInt(0)
    ELSE IF Len(s) >= 4 /\ Head(s) = "I" /\ isdigit(SubSeq(s, 2, Len(s) - 2))
         THEN PyInt(IntOfDigits(SubSeq(s, 2, Len(s) - 2), 0))
    ELSE Str(s)

pickle_loads(s) ==
    IF s = "N." THEN PyNone
    ELSE IF s = "I01\n." THEN PyBool(TRUE)
    ELSE IF s = "I00\n." THEN PyBool(FALSE)
    ELSE IF Len(s) >= 4 /\ Head(s) = "I" /\ isdigit(SubSeq(s, 2, Len(s) - 2))
         THEN PyInt(IntOfDigits(SubSeq(s, 2, Len(s) - 2), 0))
    ELSE Str(s)

RECURSIVE PickleSeq(_)
PickleSeq(xs) == IF xs = <<>> THEN "" ELSE PickleItem(Head(xs)) \o PickleSeq(Tail(xs))

\* the items of a dict with at most one key
PickleDictItems(kw) ==
    IF DOMAIN kw = {} THEN ""
    ELSE LET name == CHOOSE x \in DOMAIN kw : TRUE
         IN  "S'" \o name \o "'\np3\n" \o PickleItem(kw[name]) \o "s"

\* pickle.dumps([args, kwargs]) for a tuple args and a dict kwargs
PickleCall(args, kwargs) ==
    "(lp0\n(" \o PickleSeq(args) \o "tp1\na(dp2\n" \o PickleDictItems(kwargs) \o "a."

(***************************************************************************)
(* AutoCache (auto_cache.py).  A function is [module, name]; the outcome   *)
(* of invoking it is chosen by the caller of these operators:              *)
(* [kind |-> "return" or "DoNotCacheException", v |-> value or payload,    *)
(*  cost |-> ticks elapsed during the invocation].                         *)
(***************************************************************************)
update_auto_cache == "update_auto_cache"

\* a bug: the cost sample is written without the two flags
AutoCache_set_cost_unflagged(ns, dflt, d, t, key, value, expire_seconds, only_if_new, only_if_old, time_cost) ==
    LET Sampled(m) ==
            IF m.exc # NoExc THEN m
            ELSE CacheWrapper_set(ns, dflt, m.dict, t, key, value, expire_seconds,
                                  only_if_new, only_if_old)
    IN  Sampled(DictCache_set(d, t,
                              Str(_add_monitoring_namespace_to_key(ns, time_cost_suffix, key)),
                              time_cost, expire_seconds, FALSE, FALSE))

AutoCache_set(ns, dflt, d, t, key, value, expire_seconds, only_if_new, only_if_old, time_cost) ==
    LET Sampled(m) ==
            IF m.exc # NoExc THEN m
            ELSE CacheWrapper_set(ns, dflt, m.dict, t, key, value, expire_seconds,
                                  only_if_new, only_if_old)
    IN  Sampled(DictCache_set(d, t,
                              Str(_add_monitoring_namespace_to_key(ns, time_cost_suffix, key)),
                              time_cost, expire_seconds, only_if_new, only_if_old))

\* the list a set of keys is returned as: in some order, each key once
RECURSIVE ListOf(_)
ListOf(keys) ==
    IF keys = {} THEN <<>>
    ELSE LET Cons(key) == <<key>> \o ListOf(keys \ {key})
         IN  Cons(CHOOSE key \in keys : TRUE)

\* float(value) of the str of a whole number, written with or without '.0'
float(value) == IntOfDigits(_remove_suffix(value, ".0"), 0)

RECURSIVE sum(_)
sum(iterable) == IF iterable = <<>> THEN 0 ELSE Head(iterable) + sum(Tail(iterable))

\* float(sum(iterable)) / len(iterable), kept as the fraction it is the value of
_average(iterable) ==
    IF iterable = <<>> THEN PyInt(0)
    ELSE [ty |-> "float", s |-> "", n |-> sum(iterable), len |-> Len(iterable)]

_monitoring_keys_with_namespace(ns, d, suffix, pattern) ==
    _keys_with_namespace(ns, d, pattern, Str(monitoring_prefix), Str(suffix))

AutoCache_time_cost_average(ns, d, t) ==
    LET Averaged(raw_values) ==
            Res(_average(SelectSeq([i \in DOMAIN raw_values.ret |->
                                       IF raw_values.ret[i] = PyNone THEN -1
                                       ELSE float(raw_values.ret[i].s)],
                                   LAMBDA x : x # -1)),
                raw_values.exc, raw_values.dict)
        Keyed(raw_keys) ==
            IF raw_keys # <<>>
            THEN Averaged(DictCache_multi_get(d, t, [i \in DOMAIN raw_keys |-> Str(raw_keys[i])]))
            ELSE Averaged(Res(<<>>, NoExc, d))
    IN  Keyed(ListOf(_monitoring_keys_with_namespace(ns, d, time_cost_suffix, "*")))

_get_cache_key(func, args, kwargs) ==
    func.module \o sep \o func.name \o sep \o PickleCall(args, kwargs)

\* [ret, exc, dict], with: miss (CacheMiss raised), invoked (func was called),
\* fkwargs (the kwargs func was called with), t (the clock at the return)
CallRes(ret, exc, d, miss, invoked, fkwargs, t) ==
    [ret |-> ret, exc |-> exc, dict |-> d, miss |-> miss, invoked |-> invoked,
     fkwargs |-> fkwargs, t |-> t]

\* a bug: the payload of DoNotCacheException is cached like a returned value
_update_cache_stores_payload(ns, dflt, d, t, func, args, kwargs, outcome) ==
    LET end_time == t + outcome.cost
        Cached(w) ==
            IF w.exc # NoExc
            THEN CallRes(PyNone, w.exc, w.dict, FALSE, TRUE, kwargs, end_time)
            ELSE CallRes(outcome.v, NoExc, w.dict, FALSE, TRUE, kwargs, end_time)
    IN  Cached(AutoCache_set(ns, dflt, d, end_time, _get_cache_key(func, args, kwargs),
                             Str(pickle_dumps(outcome.v)), dflt, FALSE, FALSE,
                             PyFloat(end_time - t)))

_update_cache(ns, dflt, d, t, func, args, kwargs, outcome) ==
    IF outcome.kind = "DoNotCacheException"
    THEN CallRes(outcome.v, NoExc, d, FALSE, TRUE, kwargs, t + outcome.cost)
    ELSE LET end_time == t + outcome.cost
             Cached(w) ==
                 IF w.exc # NoExc
                 THEN CallRes(PyNone, w.exc, w.dict, FALSE, TRUE, kwargs, end_time)
                 ELSE CallRes(outcome.v, NoExc, w.dict, FALSE, TRUE, kwargs, end_time)
         IN  Cached(AutoCache_set(ns, dflt, d, end_time, _get_cache_key(func, args, kwargs),
                                  Str(pickle_dumps(outcome.v)), dflt, FALSE, FALSE,
                                  PyFloat(end_time - t)))

\* a bug: whatever is stored, the lookup raises CacheMiss
_read_cache_never_hits(ns, d, t, func, args, kwargs) ==
    LET key == _get_cache_key(func, args, kwargs)
        Loaded(g) ==
            IF g.exc # NoExc THEN CallRes(PyNone, g.exc, g.dict, FALSE, FALSE, kwargs, t)
            ELSE CallRes(PyNone, NoExc, g.dict, TRUE, FALSE, kwargs, t)
    IN  Loaded(CacheWrapper_get(ns, d, t, key))

_read_cache(ns, d, t, func, args, kwargs) ==
    LET key == _get_cache_key(func, args, kwargs)
        Loaded(g) ==
            LET value_string == g.ret
            IN  IF g.exc # NoExc THEN CallRes(PyNone, g.exc, g.dict, FALSE, FALSE, kwargs, t)
                ELSE IF value_string = PyNone
                THEN CallRes(PyNone, NoExc, g.dict, TRUE, FALSE, kwargs, t)
                ELSE CallRes(pickle_loads(value_string.s), NoExc, g.dict, FALSE, FALSE,
                             kwargs, t)
    IN  Loaded(CacheWrapper_get(ns, d, t, key))

\* a bug: the flag is read with kwargs.get and stays in kwargs
PopFlag_keeps(kwargs) ==
    [flag |-> update_auto_cache \in DOMAIN kwargs /\ kwargs[update_auto_cache].n # 0,
     kwargs |-> kwargs]

\* kwargs.pop('update_auto_cache', False)
PopFlag(kwargs) ==
    [flag |-> update_auto_cache \in DOMAIN kwargs /\ kwargs[update_auto_cache].n # 0,
     kwargs |-> [x \in DOMAIN kwargs \ {update_auto_cache} |-> kwargs[x]]]

wrapper(ns, dflt, d, t, func, args, kwargs, outcome) ==
    LET p == PopFlag(kwargs)
        Read(r) ==
            IF r.miss
            THEN _update_cache(ns, dflt, r.dict, t, func, args, p.kwargs, outcome)
            ELSE r
    IN  IF p.flag
        THEN _update_cache(ns, dflt, d, t, func, args, p.kwargs, outcome)
        ELSE Read(_read_cache(ns, d, t, func, args, p.kwargs))

(***************************************************************************)
(* State shared by the specifications                                      *)
(***************************************************************************)
EmptyDict == [x \in {} |-> Entry("", 0, NoneTtl)]

Namespace == "ns"
Func == [module |-> "tests", name |-> "run"]
Args == {1, 2}
TTLs == {NoneTtl, 1}
DefaultExpiries == {NoneTtl, 0}
WrapTTLs == {NoneTtl, 0}

\* the other operations count steps modulo 2 in last.n, so that no operation
\* is a stuttering step
Flip == 1 - last.n

TickTo(limit) ==
    /\ now < limit
    /\ now' = now + 1
    /\ last' = [n |-> Flip, op |-> "tick"]
    /\ UNCHANGED <<dict, shadow, memoVars, wrapVars, dispatched, _cache_dict, threads>>

NotCleared == [cleared |-> FALSE, hit |-> 0, miss |-> 0]

Tick == TickTo(MaxTime)

TickWrap == TickTo(MaxWrapTime)

InitBase ==
    /\ now = 0
    /\ dict = EmptyDict
    /\ last = [n |-> 0, op |-> "init"]
    /\ run_times = [a \in Args |-> 0]
    /\ lastRet = [a \in Args |-> Str("never returned")]
    /\ called = [a \in Args |-> FALSE]
    /\ pure = TRUE
    /\ ops = 0
    /\ gets = 0
    /\ sinceClear = NotCleared
    /\ _cache_dict = <<>>
    /\ threads = <<>>

\* no Dispatcher is constructed
InitCommon ==
    /\ InitBase
    /\ dispatched = <<>>

(***************************************************************************)
(* SpecDict: the in-memory backend used directly                           *)
(***************************************************************************)
RawKeys == {"a", "b"}
SetValues == {Str("x"), Unicode("y")}
Patterns == {"*", "[!a]"}

NoWrite == [kind |-> "none", v |-> PyNone, s |-> 0, ttl |-> NoneTtl]
Deleted == [kind |-> "deleted", v |-> PyNone, s |-> 0, ttl |-> NoneTtl]
Unknown == [kind |-> "unknown", v |-> PyNone, s |-> 0, ttl |-> NoneTtl]
WasSet(v, s, ttl) == [kind |-> "set", v |-> v, s |-> s, ttl |-> ttl]

NoShadow == [k \in RawKeys |-> NoWrite]

InitDict ==
    /\ InitCommon
    /\ shadow = NoShadow
    /\ default_expiry = NoneTtl

DGet ==
    \E k \in RawKeys :
        LET r == DictCache_get(dict, now, Str(k))
        IN  /\ dict' = r.dict
            /\ last' = [n |-> Flip, op |-> "get", key |-> k, ret |-> r.ret]
            /\ UNCHANGED <<now, shadow, memoVars, wrapVars, dispatched, _cache_dict, threads>>

DSetOn(keys, values, ttls) ==
    \E k \in keys, v \in values, ttl \in ttls, new \in BOOLEAN, old \in BOOLEAN :
        LET r == DictCache_set(dict, now, Str(k), v, ttl, new, old)
        IN  /\ dict' = r.dict
            /\ last' = [n |-> Flip, op |-> "set", key |-> k, val |-> v, ttl |-> ttl,
                        new |-> new, old |-> old, ret |-> r.ret, exc |-> r.exc]
            /\ shadow' = IF new /\ old THEN shadow
                         ELSE IF new \/ old THEN [shadow EXCEPT ![k] = Unknown]
                         ELSE [shadow EXCEPT ![k] = WasSet(v, now, ttl)]
            /\ UNCHANGED <<now, memoGhosts, wrapVars, dispatched, _cache_dict, threads>>

DSet == DSetOn(RawKeys, SetValues, TTLs) /\ UNCHANGED ops

DDelete ==
    \E ks \in SUBSET RawKeys :
        LET r == DictCache_delete(dict, {Str(k) : k \in ks})
        IN  /\ ks # {}
            /\ dict' = r.dict
            /\ last' = [n |-> Flip, op |-> "delete", keys |-> ks, ret |-> r.ret]
            /\ shadow' = [k \in RawKeys |-> IF k \in ks THEN Deleted ELSE shadow[k]]
            /\ UNCHANGED <<now, memoVars, wrapVars, dispatched, _cache_dict, threads>>

DClear ==
    \E pattern \in Patterns :
        LET r == DictCache_clear(dict, Str(pattern))
        IN  /\ dict' = r.dict
            /\ last' = [n |-> Flip, op |-> "clear", pattern |-> pattern, ret |-> r.ret]
            /\ shadow' = [k \in RawKeys |-> Unknown]
            /\ UNCHANGED <<now, memoVars, wrapVars, dispatched, _cache_dict, threads>>

NextDict == DGet \/ DSet \/ DDelete \/ DClear \/ Tick

SpecDict == InitDict /\ [][NextDict]_vars

(***************************************************************************)
(* Claims about the in-memory backend (SpecDict)                           *)
(***************************************************************************)
\* whether raw key k resolves to a present value at time t
Live(d, t, k) == k \in DOMAIN d /\ (d[k].ttl = NoneTtl \/ t - d[k].s <= d[k].ttl)

\* C5: after sets without ttl or flags and deletes, get(k) returns the value of the
\* latest set(k, v) of a str v when no delete of k followed it and None when k was
\* never set or was deleted since, whatever was done to the other keys.
C5_GetReturnsLatestSet ==
    /\ \A k \in RawKeys :
        /\ (shadow[k].kind = "set" /\ shadow[k].ttl = NoneTtl /\ shadow[k].v.ty = "str")
              => DictCache_get(dict, now, Str(k)).ret = shadow[k].v
        /\ shadow[k].kind \in {"none", "deleted"}
              => DictCache_get(dict, now, Str(k)).ret = PyNone
    /\ (last.op = "get" /\ shadow[last.key].kind = "set" /\ shadow[last.key].ttl = NoneTtl
           /\ shadow[last.key].v.ty = "str") => last.ret = shadow[last.key].v
    /\ (last.op = "get" /\ shadow[last.key].kind \in {"none", "deleted"}) => last.ret = PyNone

C5_Witness ==
    /\ last.op = "get" /\ last.key = "a" /\ last.ret = Str("x")
    /\ shadow["a"].kind = "set" /\ shadow["a"].ttl = NoneTtl
    /\ shadow["b"].kind = "deleted"
    /\ now > shadow["a"].s

\* C6: after set(k, v, ttl=t) at time s with no later write to k, get(k) returns v
\* while now - s <= t and None once now - s > t; a get that returns None leaves no
\* entry behind, so k stays absent until the next set.
C6_TtlExpiry ==
    /\ \A k \in RawKeys :
        (shadow[k].kind = "set" /\ shadow[k].ttl # NoneTtl /\ shadow[k].v.ty = "str")
           => DictCache_get(dict, now, Str(k)).ret =
                 IF now - shadow[k].s <= shadow[k].ttl THEN shadow[k].v ELSE PyNone
    /\ (last.op = "get" /\ shadow[last.key].kind = "set" /\ shadow[last.key].ttl # NoneTtl
           /\ shadow[last.key].v.ty = "str")
           => last.ret = IF now - shadow[last.key].s <= shadow[last.key].ttl
                         THEN shadow[last.key].v ELSE PyNone
    /\ (last.op = "get" /\ last.ret = PyNone) => last.key \notin DOMAIN dict

C6_Witness ==
    /\ last.op = "get" /\ last.ret = PyNone
    /\ shadow[last.key].kind = "set" /\ shadow[last.key].ttl = 1
    /\ now - shadow[last.key].s > 1

\* C7: a set with at most one flag returns False and changes nothing when
\* only_if_new meets a present key, returns False and leaves the key absent when
\* only_if_old meets an absent key, and otherwise replaces the entry by
\* (v, now, ttl) and returns True.
C7_SetReportsWrite ==
    [][(last'.op = "set" /\ ~(last'.new /\ last'.old)) =>
        LET k == last'.key
            present == Live(dict, now, k)
        IN  IF last'.new /\ present
            THEN last'.ret = PyBool(FALSE) /\ k \in DOMAIN dict' /\ dict'[k] = dict[k]
            ELSE IF last'.old /\ ~present
            THEN last'.ret = PyBool(FALSE) /\ k \notin DOMAIN dict'
            ELSE /\ last'.ret = PyBool(TRUE)
                 /\ k \in DOMAIN dict'
                 /\ dict'[k] = Entry(PyStr(last'.val), now, last'.ttl)]_vars

C7_Witness ==
    /\ last.op = "set" /\ last.old /\ ~last.new /\ last.ret = PyBool(FALSE)
    /\ last.key \notin DOMAIN dict
    /\ shadow[last.key].kind = "unknown"

(***************************************************************************)
(* SpecWrap: one CacheWrapper over the in-memory backend                   *)
(***************************************************************************)
WKeys == {"k1", "k2"}
WValues == {Str("x")}

InitWrap ==
    /\ InitCommon
    /\ shadow = NoShadow
    /\ default_expiry \in DefaultExpiries

WGet ==
    \E k \in WKeys :
        LET r == CacheWrapper_get(Namespace, dict, now, k)
        IN  /\ gets < MaxGets
            /\ dict' = r.dict
            /\ gets' = gets + 1
            /\ sinceClear' = IF ~sinceClear.cleared THEN sinceClear
                             ELSE IF r.ret = PyNone
                             THEN [sinceClear EXCEPT !.miss = @ + 1]
                             ELSE [sinceClear EXCEPT !.hit = @ + 1]
            /\ last' = [n |-> Flip, op |-> "wget", key |-> k, ret |-> r.ret, exc |-> r.exc]
            /\ UNCHANGED <<now, shadow, memoVars, default_expiry, dispatched, _cache_dict, threads>>

WSet ==
    \E k \in WKeys, v \in WValues, ttl \in WrapTTLs :
        LET r == CacheWrapper_set(Namespace, default_expiry, dict, now, k, v, ttl, FALSE, FALSE)
        IN  /\ dict' = r.dict
            /\ last' = [n |-> Flip, op |-> "wset", key |-> k, val |-> v, ttl |-> ttl,
                        ret |-> r.ret, exc |-> r.exc]
            /\ UNCHANGED <<now, shadow, memoVars, wrapVars, dispatched, _cache_dict, threads>>

WDelete ==
    \E ks \in {{k} : k \in WKeys} :
        LET r == CacheWrapper_delete(Namespace, dict, ks)
        IN  /\ dict' = r.dict
            /\ last' = [n |-> Flip, op |-> "wdelete", keys |-> ks]
            /\ UNCHANGED <<now, shadow, memoVars, wrapVars, dispatched, _cache_dict, threads>>

WClear ==
    LET r == CacheWrapper_clear(Namespace, dict)
    IN  /\ dict' = r.dict
        /\ sinceClear' = [cleared |-> TRUE, hit |-> 0, miss |-> 0]
        /\ last' = [n |-> Flip, op |-> "wclear"]
        /\ UNCHANGED <<now, shadow, memoVars, gets, default_expiry, dispatched, _cache_dict, threads>>

NextWrap == WGet \/ WSet \/ WDelete \/ WClear \/ TickWrap

SpecWrap == InitWrap /\ [][NextWrap]_vars

(***************************************************************************)
(* Claims about the Namespacing Wrapper (SpecWrap)                         *)
(***************************************************************************)
Hits(d, t) == CacheWrapper_hits(Namespace, d, t).ret.n
Misses(d, t) == CacheWrapper_misses(Namespace, d, t).ret.n
CounterKeys == {_hits_key(Namespace), _misses_key(Namespace)}

\* C9: a CacheWrapper.get(k) adds exactly 1 to misses when k is absent (never
\* stored, deleted or expired) and exactly 1 to hits when k is present, leaves
\* the other counter and every other live entry as it was, and returns what is
\* stored; so hits() + misses() is the number of get calls made.
C9_GetCountsOnce ==
    /\ [](Hits(dict, now) + Misses(dict, now) = gets)
    /\ [][last'.op = "wget" =>
            LET pk == _add_cache_namespace_to_key(Namespace, last'.key)
                present == Live(dict, now, pk)
            IN  /\ last'.exc = NoExc
                /\ present => /\ Hits(dict', now') = Hits(dict, now) + 1
                              /\ Misses(dict', now') = Misses(dict, now)
                              /\ last'.ret = Str(dict[pk].v)
                /\ ~present => /\ Misses(dict', now') = Misses(dict, now) + 1
                               /\ Hits(dict', now') = Hits(dict, now)
                               /\ last'.ret = PyNone
                /\ \A key \in DOMAIN dict \ CounterKeys :
                       Live(dict, now, key) => key \in DOMAIN dict' /\ dict'[key] = dict[key]
       ]_vars

C9_Witness ==
    /\ last.op = "wget" /\ last.ret = PyNone
    /\ gets = 3
    /\ Hits(dict, now) = 1 /\ Misses(dict, now) = 2
    /\ sinceClear.cleared
    /\ DOMAIN dict \ CounterKeys # {}

\* C10 (as claimed): after clear() the counters read as if counted from the
\* clear: right after it hits() = 0, misses() = 0 and hit_rate() = 0, and after h
\* hitting and m missing gets hit_rate() = h / (h + m), 0.25 for 1 hit and 3 misses.
C10_ClearResetsCounters ==
    sinceClear.cleared =>
        LET rate == CacheWrapper_hit_rate(Namespace, dict, now)
            h == sinceClear.hit
            m == sinceClear.miss
        IN  /\ Hits(dict, now) = h
            /\ Misses(dict, now) = m
            /\ IF h + m = 0 THEN rate.num = 0
               ELSE rate.num * (h + m) = h * rate.den

(***************************************************************************)
(* Spec: one AutoCache over the in-memory backend, memoizing Func.  Each   *)
(* invocation of the underlying function draws its outcome: a returned     *)
(* value or a DoNotCacheException payload, and the time it takes.          *)
(***************************************************************************)
Return(v, cost) == [kind |-> "return", v |-> v, cost |-> cost]
DoNotCache(v, cost) == [kind |-> "DoNotCacheException", v |-> v, cost |-> cost]
\* what run(a) may do when invoked
Outcomes(a) ==
    IF a = 1 THEN {Return(PyNone, 0), Return(PyInt(1), 1), DoNotCache(PyInt(7), 1)}
    ELSE {Return(PyBool(FALSE), 1), Return(PyInt(1), 0), DoNotCache(PyInt(7), 0)}

NoKwargs == [x \in {} |-> PyNone]
CallKwargs == {NoKwargs, [x \in {update_auto_cache} |-> PyBool(TRUE)]}

\* the logical key of run(a) and the physical keys of its entry and cost sample
KeyOf(a) == _get_cache_key(Func, <<PyInt(a)>>, NoKwargs)
CacheKey(a) == _add_cache_namespace_to_key(Namespace, KeyOf(a))
CostKey(a) == _add_monitoring_namespace_to_key(Namespace, time_cost_suffix, KeyOf(a))

\* what a step remembers of the step before it
PrevOf(l) ==
    IF l.op = "call"
    THEN [op |-> "call", a |-> l.a, forced |-> l.forced, invoked |-> l.invoked,
          kind |-> l.kind, ret |-> l.ret]
    ELSE [op |-> l.op]

Init ==
    /\ InitCommon
    /\ shadow = NoShadow
    /\ default_expiry \in DefaultExpiries

Call ==
    \E a \in Args, kwargs \in CallKwargs : \E outcome \in Outcomes(a) :
      \E r \in {wrapper(Namespace, default_expiry, dict, now, Func, <<PyInt(a)>>, kwargs,
                         outcome)} :
        LET forced == update_auto_cache \in DOMAIN kwargs
        IN  /\ ops < MaxOps
            /\ ops' = ops + 1
            /\ dict' = r.dict
            /\ now' = r.t
            /\ run_times' = [run_times EXCEPT ![a] = IF r.invoked THEN @ + 1 ELSE @]
            /\ lastRet' = [lastRet EXCEPT ![a] =
                              IF r.invoked /\ outcome.kind = "return" THEN outcome.v ELSE @]
            /\ called' = [called EXCEPT ![a] = @ \/ ~forced]
            /\ pure' = (pure /\ ~forced /\ ~(r.invoked /\ outcome.kind # "return"))
            /\ last' = [n |-> Flip, op |-> "call", a |-> a, forced |-> forced,
                        invoked |-> r.invoked,
                        kind |-> IF r.invoked THEN outcome.kind ELSE "hit",
                        v |-> IF r.invoked THEN outcome.v ELSE PyNone,
                        fkwargs |-> IF r.invoked THEN r.fkwargs ELSE NoKwargs,
                        ret |-> r.ret, exc |-> r.exc, prev |-> PrevOf(last)]
            /\ UNCHANGED <<shadow, wrapVars, dispatched, _cache_dict, threads>>

MDelete ==
    \E a \in Args :
        LET r == CacheWrapper_delete(Namespace, dict, {KeyOf(a)})
        IN  /\ ops < MaxOps
            /\ ops' = ops + 1
            /\ dict' = r.dict
            /\ pure' = FALSE
            /\ last' = [n |-> Flip, op |-> "delete", a |-> a]
            /\ UNCHANGED <<now, shadow, run_times, lastRet, called, wrapVars, dispatched, _cache_dict, threads>>

MClear ==
    LET r == CacheWrapper_clear(Namespace, dict)
    IN  /\ ops < MaxOps
        /\ ops' = ops + 1
        /\ dict' = r.dict
        /\ pure' = FALSE
        /\ last' = [n |-> Flip, op |-> "clear"]
        /\ UNCHANGED <<now, shadow, run_times, lastRet, called, wrapVars, dispatched, _cache_dict, threads>>

MTick ==
    /\ ops < MaxOps
    /\ ops' = ops + 1
    /\ now' = now + 1
    /\ last' = [n |-> Flip, op |-> "tick"]
    /\ UNCHANGED <<dict, shadow, run_times, lastRet, called, pure, wrapVars, dispatched, _cache_dict, threads>>

Next == Call \/ MDelete \/ MClear \/ MTick

Spec == Init /\ [][Next]_vars

(***************************************************************************)
(* SpecSet: AutoCache.set, and DictCache.set on a key of its own, with     *)
(* every combination of only_if_new and only_if_old                        *)
(***************************************************************************)
TimeCosts == {PyInt(0)}

ASet ==
    \E k \in WKeys, v \in WValues, ttl \in WrapTTLs, new \in BOOLEAN, old \in BOOLEAN :
      \E time_cost \in TimeCosts :
        LET r == AutoCache_set(Namespace, default_expiry, dict, now, k, v, ttl, new, old,
                               time_cost)
        IN  /\ ops < MaxOps
            /\ ops' = ops + 1
            /\ dict' = r.dict
            /\ last' = [n |-> Flip, op |-> "aset", key |-> k, val |-> v, ttl |-> ttl,
                        new |-> new, old |-> old, ret |-> r.ret, exc |-> r.exc]
            /\ UNCHANGED <<now, shadow, memoGhosts, wrapVars, dispatched, _cache_dict, threads>>

BSet ==
    /\ ops < MaxOps
    /\ ops' = ops + 1
    /\ DSetOn({"a"}, WValues, WrapTTLs)

NextSet == ASet \/ BSet \/ MTick

SpecSet == Init /\ [][NextSet]_vars

(***************************************************************************)
(* Claims about set with both flags (SpecSet)                              *)
(***************************************************************************)
\* C8: a set with only_if_new and only_if_old both True, on the backend or
\* through AutoCache.set, raises ParameterError and leaves the backend as it
\* was: no value and no cost sample is written, removed or changed.
C8_BothFlagsRejected ==
    [][(last'.op \in {"set", "aset"} /\ last'.new /\ last'.old) =>
          /\ last'.exc = ParameterError
          /\ dict' = dict]_vars

C8_Witness ==
    /\ last.op = "aset" /\ last.new /\ last.old /\ last.exc = ParameterError
    /\ _add_cache_namespace_to_key(Namespace, last.key) \notin DOMAIN dict
    /\ _add_monitoring_namespace_to_key(Namespace, time_cost_suffix, last.key)
           \notin DOMAIN dict
    /\ "a" \in DOMAIN dict
    /\ \E k \in WKeys : _add_cache_namespace_to_key(Namespace, k) \in DOMAIN dict

(***************************************************************************)
(* Claims about the memoization layer (Spec)                               *)
(***************************************************************************)
\* a plain memoized call of run(a) made in the current state, were it to miss,
\* is looked up by this
Lookup(a) == _read_cache(Namespace, dict, now, Func, <<PyInt(a)>>, NoKwargs)

\* C1: while only plain calls of a normally returning function have been made
\* on a cache with no expiry, starting from the empty cache (no forced call,
\* delete, clear or DoNotCacheException so far), the function has been invoked
\* exactly once for each argument called with and never for the others: a plain
\* call invokes it exactly when it is the first call with its argument.
C1_InvokedOncePerArgs ==
    /\ []((pure /\ default_expiry = NoneTtl) =>
            \A a \in Args : run_times[a] = IF called[a] THEN 1 ELSE 0)
    /\ [][(pure' /\ default_expiry = NoneTtl /\ last'.op = "call") =>
            (last'.invoked <=> ~called[last'.a])]_vars

C1_Witness ==
    /\ pure /\ default_expiry = NoneTtl
    /\ last.op = "call" /\ ~last.invoked /\ last.a = 1
    /\ last.prev.op = "call" /\ last.prev.a = 2 /\ last.prev.invoked
    /\ run_times[1] = 1 /\ run_times[2] = 1
    /\ now > 0

\* C2: a call with update_auto_cache=True invokes the function whatever the
\* cache holds and calls it without the flag; when the function returns, the
\* pickled result is the entry under the key of the plain call with the same
\* argument, so that a plain call made now, and the plain call that is the next
\* step, returns that result without invoking the function.
C2_ForcedRecompute ==
    /\ (last.op = "call" /\ last.forced) =>
            /\ last.invoked
            /\ update_auto_cache \notin DOMAIN last.fkwargs
            /\ last.kind = "return" =>
                  /\ last.exc = NoExc /\ last.ret = last.v
                  /\ CacheKey(last.a) \in DOMAIN dict
                  /\ dict[CacheKey(last.a)].v = pickle_dumps(last.v)
                  /\ ~Lookup(last.a).miss
                  /\ Lookup(last.a).ret = last.v
    /\ (( /\ last.op = "call" /\ ~last.forced
            /\ last.prev.op = "call" /\ last.prev.forced /\ last.prev.kind = "return"
            /\ last.prev.a = last.a)
           => ~last.invoked /\ last.ret = last.prev.ret)

C2_Witness ==
    /\ last.op = "call" /\ ~last.forced /\ ~last.invoked /\ last.ret = PyBool(FALSE)
    /\ last.prev.op = "call" /\ last.prev.forced /\ last.prev.kind = "return"
    /\ last.prev.a = last.a
    /\ run_times[last.a] = 2

\* C3: a hit returns the value of the latest normal return of the function for
\* that argument, and a live entry is a hit whatever value it holds: a plain
\* call right after a call that invoked the function and got None, False or 1
\* back does not invoke it and returns the same value.
C3_HitReturnsStored ==
    /\ \A a \in Args :
          Live(dict, now, CacheKey(a)) =>
              /\ ~Lookup(a).miss /\ Lookup(a).exc = NoExc
              /\ Lookup(a).ret = lastRet[a]
    /\ (last.op = "call" /\ ~last.invoked) =>
          /\ last.exc = NoExc
          /\ last.ret = lastRet[last.a]
    /\ ( /\ last.op = "call" /\ ~last.forced
         /\ last.prev.op = "call" /\ last.prev.invoked /\ last.prev.kind = "return"
         /\ last.prev.a = last.a)
        => ~last.invoked /\ last.ret = last.prev.ret

C3_Witness ==
    /\ last.op = "call" /\ ~last.invoked /\ last.ret = PyNone
    /\ last.prev.op = "call" /\ ~last.prev.invoked /\ last.prev.ret = PyNone
    /\ last.prev.a = last.a
    /\ run_times[last.a] = 1 /\ lastRet[last.a] = PyNone

\* the keys that only a get may write: the two counters
Counters == {_hits_key(Namespace), _misses_key(Namespace)}

Namespaces == {"a", "a:cache", "[a]"}
NsKeys == {"k", "cache:k"}

\* the lookup of run(1) through the layer of namespace ns
LookupIn(ns, d, t) == _read_cache(ns, d, t, Func, <<PyInt(1)>>, NoKwargs)

NCall ==
    \E ns \in Namespaces :
      \E r \in {wrapper(ns, default_expiry, dict, now, Func, <<PyInt(1)>>, NoKwargs,
                        Return(PyInt(1), 0))} :
        /\ ops < MaxOps
        /\ ops' = ops + 1
        /\ dict' = r.dict
        /\ last' = [n |-> Flip, op |-> "ncall", ns |-> ns, key |-> KeyOf(1),
                    invoked |-> r.invoked, ret |-> r.ret, exc |-> r.exc]
        /\ UNCHANGED <<now, shadow, memoGhosts, wrapVars, dispatched, _cache_dict, threads>>

NSet ==
    \E ns \in Namespaces, k \in NsKeys :
      \E r \in {AutoCache_set(ns, default_expiry, dict, now, k, Str("v"), NoneTtl, FALSE,
                              FALSE, PyInt(2))} :
        /\ ops < MaxOps
        /\ ops' = ops + 1
        /\ dict' = r.dict
        /\ last' = [n |-> Flip, op |-> "nset", ns |-> ns, key |-> k, ret |-> r.ret,
                    exc |-> r.exc]
        /\ UNCHANGED <<now, shadow, memoGhosts, wrapVars, dispatched, _cache_dict, threads>>

NDelete ==
    \E ns \in Namespaces, k \in NsKeys :
        /\ ops < MaxOps
        /\ ops' = ops + 1
        /\ dict' = CacheWrapper_delete(ns, dict, {k}).dict
        /\ last' = [n |-> Flip, op |-> "ndelete", ns |-> ns, key |-> k]
        /\ UNCHANGED <<now, shadow, memoGhosts, wrapVars, dispatched, _cache_dict, threads>>

NClear ==
    \E ns \in Namespaces :
        /\ ops < MaxOps
        /\ ops' = ops + 1
        /\ dict' = CacheWrapper_clear(ns, dict).dict
        /\ last' = [n |-> Flip, op |-> "nclear", ns |-> ns]
        /\ UNCHANGED <<now, shadow, memoGhosts, wrapVars, dispatched, _cache_dict, threads>>

NAverage ==
    \E ns \in Namespaces :
      \E r \in {AutoCache_time_cost_average(ns, dict, now)} :
        /\ ops < MaxOps
        /\ ops' = ops + 1
        /\ dict' = r.dict
        /\ last' = [n |-> Flip, op |-> "naverage", ns |-> ns, ret |-> r.ret, exc |-> r.exc]
        /\ UNCHANGED <<now, shadow, memoGhosts, wrapVars, dispatched, _cache_dict, threads>>

NextNs == NCall \/ NSet \/ NDelete \/ NClear \/ NAverage

SpecNs == InitDict /\ [][NextNs]_vars

\* the physical key of the cache entry of logical key k in the one wrapper of SpecWrap
CacheKeyOf(k) == _add_cache_namespace_to_key(Namespace, k)

\* what the layer of namespace ns can see of its cache entries
GetThrough(ns, d, t, k) == CacheWrapper_get(ns, d, t, k).ret
KeysThrough(ns, d) == CacheWrapper_get_keys(ns, d, "*")

\* the physical key of the cache entry of logical key k in namespace ns
PhysicalKey(ns, k) == _add_cache_namespace_to_key(ns, k)

\* C11: a set, delete or clear through the layer of one namespace changes no
\* result of get and no result of get_keys through the layer of another
\* namespace, the physical keys of two namespaces never coincide, and the
\* pattern one layer clears never matches a physical key of another.
C11_NamespacesIsolated ==
    [][/\ last'.op \in {"nset", "ndelete", "nclear"} =>
            \A other \in Namespaces \ {last'.ns} :
                /\ \A k \in NsKeys :
                       GetThrough(other, dict', now', k) = GetThrough(other, dict, now, k)
                /\ KeysThrough(other, dict') = KeysThrough(other, dict)
       /\ \A ns1 \in Namespaces :
              \A ns2 \in Namespaces \ {ns1}, k1 \in NsKeys, k2 \in NsKeys :
                  /\ PhysicalKey(ns1, k1) # PhysicalKey(ns2, k2)
                  /\ ~ fnmatch(PhysicalKey(ns2, k2), PhysicalKey(ns1, "*"))]_vars

\* the physical keys a step writes: those it adds and those whose entry changes
Written(old, new) == {key \in DOMAIN new : key \notin DOMAIN old \/ new[key] # old[key]}

\* C12: every physical key that the layer of namespace ns writes (a cache
\* entry, a hit or miss counter, a cost sample) starts with
\* 'py_auto_cache:' followed by ns.
C12_WritesUnderNamespace ==
    [][\A key \in Written(dict, dict') : startswith(key, "py_auto_cache:" \o last'.ns)]_vars

\* a memoized call through the layer of 'a:cache' has written its entry, its
\* cost sample and the miss counter, and a later call the hit counter
C12_Witness ==
    /\ last.op = "ncall"
    /\ last.ns = "a:cache"
    /\ ~ last.invoked
    /\ \A suffix \in {":None", ":time_cost", ":misses", ":hits"} :
           \E key \in DOMAIN dict :
               endswith(key, suffix) /\ startswith(key, "py_auto_cache:a:cache:")

\* the two physical keys AutoCache.set writes for logical key k, spelled out
EntryKeyText(ns, k) == "py_auto_cache:" \o ns \o ":cache:" \o k \o ":None"
CostKeyText(ns, k) == "py_auto_cache:" \o ns \o ":monitoring:" \o k \o ":time_cost"

\* C13 (as amended): the physical key of the cache entry of logical key k in
\* namespace ns is exactly 'py_auto_cache:' ns ':cache:' k ':None' (the absent
\* suffix is formatted as the text None); a set writes that key and the cost
\* sample 'py_auto_cache:' ns ':monitoring:' k ':time_cost' and nothing else.
C13_CacheKeyEndsWithNone ==
    [][last'.op = "nset" =>
          /\ EntryKeyText(last'.ns, last'.key) \in DOMAIN dict'
          /\ dict'[EntryKeyText(last'.ns, last'.key)].v = "v"
          /\ CostKeyText(last'.ns, last'.key) \in DOMAIN dict'
          /\ Written(dict, dict') \subseteq
                 {EntryKeyText(last'.ns, last'.key), CostKeyText(last'.ns, last'.key)}]_vars

C13_Witness ==
    /\ last.op = "nset"
    /\ last.ns = "[a]"
    /\ last.key = "cache:k"
    /\ last.ret = PyBool(TRUE)
    /\ "py_auto_cache:[a]:cache:cache:k:None" \in DOMAIN dict

\* C13 (as stated): the physical key of the cache entry is exactly
\* 'py_auto_cache:' ns ':cache:' k, with no suffix.
C13_CacheKeyNoSuffix ==
    [][last'.op = "nset" =>
          ("py_auto_cache:" \o last'.ns \o ":cache:" \o last'.key) \in DOMAIN dict']_vars

\* C14: get_keys('*') through a wrapper lists exactly the logical keys set
\* through it and not since deleted or cleared, the namespace stripped: a
\* set or a storing call adds its key, delete removes its key, clear removes
\* all; stripping the namespace from the physical key of k gives k; no
\* counter or cost-sample key is listed.
C14_GetKeysListsLogicalKeys ==
    [][LET Listed(before, after) ==
               /\ after \subseteq NsKeys \cup {KeyOf(1)}
               /\ last'.op = "nset" => after = before \cup {last'.key}
               /\ (last'.op = "ncall" /\ last'.invoked) => after = before \cup {last'.key}
               /\ (last'.op = "ncall" /\ ~ last'.invoked) => after = before
               /\ last'.op = "ndelete" => after = before \ {last'.key}
               /\ last'.op = "nclear" => after = {}
               /\ last'.op \in {"nset", "ncall", "ndelete"} =>
                      _remove_cache_namespace_from_key(last'.ns,
                          PhysicalKey(last'.ns, last'.key)) = last'.key
       IN  Listed(KeysThrough(last'.ns, dict), KeysThrough(last'.ns, dict'))]_vars

\* C15: after clear() through the layer of any namespace, get_keys() through
\* it is empty and the memoized call is a miss (so it invokes the function
\* again).
C15_ClearEmptiesNamespace ==
    [][last'.op = "nclear" =>
          /\ KeysThrough(last'.ns, dict') = {}
          /\ LookupIn(last'.ns, dict', now').miss]_vars

\* the clock values at which an entry is looked at
LaterTimes == 0 .. (MaxWrapTime + 2)

\* C16: a set through the wrapper without ttl stores the entry with the
\* wrapper's default expiry, a set with a ttl (0 included) stores that ttl,
\* and an entry stored with neither never expires: get returns it at any
\* later time.
C16_DefaultExpiry ==
    /\ [][last'.op = "wset" =>
             /\ CacheKeyOf(last'.key) \in DOMAIN dict'
             /\ dict'[CacheKeyOf(last'.key)] =
                    Entry(last'.val.s, now,
                          IF last'.ttl = NoneTtl THEN default_expiry ELSE last'.ttl)]_vars
    /\ [](\A k \in WKeys :
              (CacheKeyOf(k) \in DOMAIN dict /\ dict[CacheKeyOf(k)].ttl = NoneTtl) =>
                  \A t \in LaterTimes :
                      t >= now => GetThrough(Namespace, dict, t, k) = Str(dict[CacheKeyOf(k)].v))

\* an entry set with neither ttl nor default is read after time has passed,
\* and another was set with ttl 0 on a wrapper without default
C16_Witness ==
    /\ last.op = "wget"
    /\ last.key = "k1"
    /\ last.ret = Str("x")
    /\ default_expiry = NoneTtl
    /\ dict[CacheKeyOf("k1")].ttl = NoneTtl
    /\ now > dict[CacheKeyOf("k1")].s
    /\ CacheKeyOf("k2") \in DOMAIN dict
    /\ dict[CacheKeyOf("k2")].ttl = 0

(***************************************************************************)
(* SpecDisp: a Dispatcher over NumCaches in-memory backends, each of which *)
(* its owner can also write to directly                                    *)
(***************************************************************************)
NumCaches == 2
DispKeys == {"a", "b"}
DispValues == {Str("x"), Str("7")}
DispPatterns == {"*", "[a]"}
Amounts == {1, 5}
KeyLists == {<<Str("a"), Str("b")>>}

dispVars == <<dict, shadow, memoGhosts, wrapVars, _cache_dict, threads>>

InitDisp ==
    /\ InitBase
    /\ shadow = NoShadow
    /\ default_expiry = NoneTtl
    /\ dispatched = [i \in 1 .. NumCaches |-> EmptyDict]

\* a backend's own set, not through the dispatcher
XSet ==
    \E i \in 1 .. NumCaches, k \in DispKeys :
        /\ ops < MaxOps
        /\ ops' = ops + 1
        /\ dispatched' = [dispatched EXCEPT
               ![i] = DictCache_set(@, now, Str(k), Str("x"), NoneTtl, FALSE, FALSE).dict]
        /\ last' = [n |-> Flip, op |-> "xset", i |-> i, key |-> k]
        /\ UNCHANGED <<now, dispVars>>

PGet ==
    \E k \in DispKeys : \E r \in {Dispatcher_get(dispatched, now, Str(k))} :
        /\ ops < MaxOps
        /\ ops' = ops + 1
        /\ dispatched' = r.caches
        /\ last' = [n |-> Flip, op |-> "get", key |-> k, ret |-> r.ret, exc |-> r.exc]
        /\ UNCHANGED <<now, dispVars>>

PSet ==
    \E k \in DispKeys, v \in DispValues, ttl \in WrapTTLs :
      \E r \in {Dispatcher_set(dispatched, now, Str(k), v, ttl, FALSE, FALSE)} :
        /\ ops < MaxOps
        /\ ops' = ops + 1
        /\ dispatched' = r.caches
        /\ last' = [n |-> Flip, op |-> "set", key |-> k, val |-> v, ttl |-> ttl,
                    ret |-> r.ret, exc |-> r.exc]
        /\ UNCHANGED <<now, dispVars>>

PDelete ==
    \E keys \in {{"a"}, {"a", "b"}} :
      \E r \in {Dispatcher_delete(dispatched, {Str(k) : k \in keys})} :
        /\ ops < MaxOps
        /\ ops' = ops + 1
        /\ dispatched' = r.caches
        /\ last' = [n |-> Flip, op |-> "delete", keys |-> keys, ret |-> r.ret, exc |-> r.exc,
                    prev |-> [op |-> last.op, i |-> IF last.op = "xset" THEN last.i ELSE 0]]
        /\ UNCHANGED <<now, dispVars>>

PGetKeys ==
    \E pattern \in DispPatterns :
        /\ ops < MaxOps
        /\ ops' = ops + 1
        /\ last' = [n |-> Flip, op |-> "get_keys", pattern |-> pattern,
                    ret |-> Dispatcher_get_keys(dispatched, Str(pattern)), exc |-> NoExc]
        /\ UNCHANGED <<now, dispatched, dispVars>>

PIncrease ==
    \E k \in DispKeys, amount \in Amounts :
      \E r \in {Dispatcher_increase(dispatched, now, Str(k), amount)} :
        /\ ops < MaxOps
        /\ ops' = ops + 1
        /\ dispatched' = r.caches
        /\ last' = [n |-> Flip, op |-> "increase", key |-> k, amount |-> amount,
                    ret |-> r.ret, exc |-> r.exc]
        /\ UNCHANGED <<now, dispVars>>

PMultiGet ==
    \E keys \in KeyLists : \E r \in {Dispatcher_multi_get(dispatched, now, keys)} :
        /\ ops < MaxOps
        /\ ops' = ops + 1
        /\ dispatched' = r.caches
        /\ last' = [n |-> Flip, op |-> "multi_get", keys |-> keys, ret |-> r.ret,
                    exc |-> r.exc]
        /\ UNCHANGED <<now, dispVars>>

PClear ==
    \E pattern \in DispPatterns : \E r \in {Dispatcher_clear(dispatched, Str(pattern))} :
        /\ ops < MaxOps
        /\ ops' = ops + 1
        /\ dispatched' = r.caches
        /\ last' = [n |-> Flip, op |-> "clear", pattern |-> pattern, ret |-> r.ret,
                    exc |-> r.exc]
        /\ UNCHANGED <<now, dispVars>>

NextDisp ==
    XSet \/ PGet \/ PSet \/ PDelete \/ PGetKeys \/ PIncrease \/ PMultiGet \/ PClear \/ MTick

SpecDisp == InitDisp /\ [][NextDisp]_vars

\* C17: get, set, get_keys, increase and multi_get of the Dispatcher act on
\* the primary backend only: the result and the primary's new content are
\* those of the same call on the primary, and no other backend changes.
C17_PrimaryOnly ==
    [][last'.op \in {"get", "set", "get_keys", "increase", "multi_get"} =>
          LET AsPrimary(r) ==
                  /\ last'.ret = r.ret
                  /\ last'.exc = r.exc
                  /\ dispatched'[1] = r.dict
          IN  /\ \A i \in 2 .. NumCaches : dispatched'[i] = dispatched[i]
              /\ last'.op = "get" =>
                     AsPrimary(DictCache_get(dispatched[1], now, Str(last'.key)))
              /\ last'.op = "set" =>
                     AsPrimary(DictCache_set(dispatched[1], now, Str(last'.key), last'.val,
                                             last'.ttl, FALSE, FALSE))
              /\ last'.op = "get_keys" =>
                     AsPrimary(Res(DictCache_get_keys(dispatched[1], Str(last'.pattern)),
                                   NoExc, dispatched[1]))
              /\ last'.op = "increase" =>
                     AsPrimary(DictCache_increase(dispatched[1], now, Str(last'.key),
                                                  last'.amount))
              /\ last'.op = "multi_get" =>
                     AsPrimary(DictCache_multi_get(dispatched[1], now, last'.keys))]_vars

\* an increase through the dispatcher counted from the absent key of the
\* primary while the second backend holds 'x' under that key
C17_Witness ==
    /\ last.op = "increase"
    /\ last.key = "a"
    /\ last.ret = Str("5")
    /\ "a" \in DOMAIN dispatched[2]
    /\ dispatched[2]["a"].v = "x"
    /\ dispatched[1]["a"].v = "5"

\* the keys of backend i among keys, and those matching pattern
HeldOf(i, keys) == keys \cap DOMAIN dispatched[i]
MatchingOf(i, pattern) == {key \in DOMAIN dispatched[i] : fnmatch(key, pattern)}

\* C18: delete(keys) of the Dispatcher deletes the keys from every backend,
\* and its result lists, in the order of the backends, how many keys each
\* backend deleted.
C18_DeleteEverywhere ==
    [][last'.op = "delete" =>
          /\ last'.exc = NoExc
          /\ Len(last'.ret) = NumCaches
          /\ \A i \in 1 .. NumCaches :
                 /\ last'.ret[i] = PyInt(Cardinality(HeldOf(i, last'.keys)))
                 /\ dispatched'[i] = Remove(dispatched[i], last'.keys)
                 /\ DOMAIN dispatched'[i] \cap last'.keys = {}]_vars

\* the primary deleted no key and the second backend one
C18_Witness ==
    /\ last.op = "delete"
    /\ last.ret = <<PyInt(0), PyInt(1)>>
    /\ last.prev.op = "xset"
    /\ last.prev.i = 2
    /\ dispatched[2] = EmptyDict

ISet ==
    /\ ops < MaxOps
    /\ ops' = ops + 1
    /\ DSetOn({"a"}, DispValues, WrapTTLs)

DIncrease ==
    \E k \in DispKeys, amount \in Amounts :
      \E r \in {DictCache_increase(dict, now, Str(k), amount)} :
        /\ ops < MaxOps
        /\ ops' = ops + 1
        /\ dict' = r.dict
        /\ last' = [n |-> Flip, op |-> "increase", key |-> k, amount |-> amount,
                    ret |-> r.ret, exc |-> r.exc]
        /\ UNCHANGED <<now, shadow, memoGhosts, wrapVars, dispatched, _cache_dict, threads>>

NextInc == ISet \/ DIncrease \/ MTick

SpecInc == InitDict /\ [][NextInc]_vars

\* str(amount), spelled out
AmountText(amount) == IF amount = 5 THEN "5" ELSE "1"

\* C20: increase(k, amount) on an absent key stores and returns str(amount)
\* (5 gives '5'); on a value that is not a number it fails with a value
\* error that is also a client error, and the stored value is unchanged.
C20_IncreaseAbsentAndNonNumeric ==
    [][last'.op = "increase" =>
          LET Before(value) ==
                  /\ value = PyNone =>
                         /\ last'.exc = NoExc
                         /\ last'.ret = Str(AmountText(last'.amount))
                         /\ dict'[last'.key] = Entry(AmountText(last'.amount), now, NoneTtl)
                  /\ value = Str("x") =>
                         /\ {"ValueError", "ClientError"} \subseteq last'.exc
                         /\ dict' = dict
                         /\ DictCache_get(dict', now, Str(last'.key)).ret = Str("x")
          IN  Before(DictCache_get(dict, now, Str(last'.key)).ret)]_vars

\* increase(b, 5) on the absent key b stored '5', and increase on the value
\* 'x' of key a failed
C20_Witness ==
    /\ last.op = "increase"
    /\ last.key = "a"
    /\ last.exc = WrappedValueError
    /\ dict["a"].v = "x"
    /\ "b" \in DOMAIN dict
    /\ dict["b"].v = "5"

(***************************************************************************)
(* SpecSigned: increases by positive and negative amounts on the           *)
(* in-memory backend                                                       *)
(***************************************************************************)
SignedAmounts == {-5, -1, 3}

SIncrease ==
    \E k \in DispKeys, amount \in SignedAmounts :
      \E r \in {DictCache_increase(dict, now, Str(k), amount)} :
        /\ ops < MaxOps
        /\ ops' = ops + 1
        /\ dict' = r.dict
        /\ last' = [n |-> Flip, op |-> "increase", key |-> k, amount |-> amount,
                    ret |-> r.ret, exc |-> r.exc]
        /\ UNCHANGED <<now, shadow, memoGhosts, wrapVars, dispatched, _cache_dict, threads>>

NextSigned == ISet \/ SIncrease \/ MTick

SpecSigned == InitDict /\ [][NextSigned]_vars

\* the decimal strings of integers, and the integer of one
IsDecimal(s) == isdigit(s) \/ (Len(s) > 1 /\ Head(s) = "-" /\ isdigit(Tail(s)))
IntOfDecimal(s) == IF Head(s) = "-" THEN 0 - IntOfDigits(Tail(s), 0) ELSE IntOfDigits(s, 0)

\* C21: on a key whose stored value is the decimal string of an integer n,
\* negative n included, increase(k, a) succeeds, stores the string of n + a
\* and returns it.
C21_IncreaseAddsSigned ==
    [][last'.op = "increase" =>
          LET Before(value) ==
                  (value # PyNone /\ IsDecimal(value.s)) =>
                      /\ last'.exc = NoExc
                      /\ last'.ret = Str(ToString(IntOfDecimal(value.s) + last'.amount))
                      /\ dict'[last'.key].v = ToString(IntOfDecimal(value.s) + last'.amount)
          IN  Before(DictCache_get(dict, now, Str(last'.key)).ret)]_vars

(***************************************************************************)
(* get_auto_cache (auto_cache.py).  cd is MG._cache_dict; objects are told *)
(* apart by an id: an AutoCache by the step that constructed it, a         *)
(* backend given by the caller by its number (0 for None).                 *)
(***************************************************************************)
AssertionError == {"AssertionError"}

\* the object AutoCache(namespace, default_expiry, wrapped_cache) that step id built
AutoCache_init(id, namespace, expiry, wrapped_cache) ==
    [id |-> id, namespace |-> namespace, default_expiry |-> expiry,
     wrapped_cache |-> IF wrapped_cache = 0 THEN "DefaultCache of " \o ToString(id)
                       ELSE "cache " \o ToString(wrapped_cache)]

RegRes(ret, exc, cd) == [ret |-> ret, exc |-> exc, cd |-> cd]

\* a bug: a new AutoCache is built, and registered, at every call
get_auto_cache_rebuilds(cd, fresh, namespace, expiry, wrapped_cache) ==
    IF namespace = "default" THEN RegRes(PyNone, AssertionError, cd)
    ELSE RegRes(AutoCache_init(fresh, namespace, expiry, wrapped_cache), NoExc,
                [key \in DOMAIN cd \cup {<<namespace, expiry, wrapped_cache>>} |->
                    IF key = <<namespace, expiry, wrapped_cache>>
                    THEN AutoCache_init(fresh, namespace, expiry, wrapped_cache)
                    ELSE cd[key]])

\* fresh is the id an AutoCache constructed by this call gets
get_auto_cache(cd, fresh, namespace, expiry, wrapped_cache) ==
    IF <<namespace, expiry, wrapped_cache>> \in DOMAIN cd
    THEN RegRes(cd[<<namespace, expiry, wrapped_cache>>], NoExc, cd)
    ELSE IF namespace = "default" THEN RegRes(PyNone, AssertionError, cd)
    ELSE RegRes(AutoCache_init(fresh, namespace, expiry, wrapped_cache), NoExc,
                [key \in DOMAIN cd \cup {<<namespace, expiry, wrapped_cache>>} |->
                    IF key = <<namespace, expiry, wrapped_cache>>
                    THEN AutoCache_init(fresh, namespace, expiry, wrapped_cache)
                    ELSE cd[key]])

(***************************************************************************)
(* SpecReg: calls of get_auto_cache in one process                         *)
(***************************************************************************)
RegNamespaces == {"py_auto_cache", "a", "default"}
RegCaches == {0, 1}

GetAutoCache ==
    \E namespace \in RegNamespaces, expiry \in DefaultExpiries, wrapped_cache \in RegCaches :
      \E r \in {get_auto_cache(_cache_dict, ops + 1, namespace, expiry, wrapped_cache)} :
        /\ ops < MaxOps
        /\ ops' = ops + 1
        /\ _cache_dict' = r.cd
        /\ last' = [n |-> Flip, op |-> "get_auto_cache",
                    key |-> <<namespace, expiry, wrapped_cache>>,
                    ret |-> r.ret, exc |-> r.exc]
        /\ UNCHANGED <<now, dict, shadow, memoGhosts, wrapVars, dispatched, threads>>

NextReg == GetAutoCache

SpecReg == InitDict /\ [][NextReg]_vars

\* C22: get_auto_cache returns the same AutoCache for every call with an
\* equal (namespace, default_expiry, wrapped_cache) and different ones for
\* different triples; an entry once created is never replaced or evicted.
C22_OneInstancePerTriple ==
    /\ [](\A k1 \in DOMAIN _cache_dict, k2 \in DOMAIN _cache_dict :
              /\ _cache_dict[k1].namespace = k1[1]
              /\ _cache_dict[k1].default_expiry = k1[2]
              /\ k1 # k2 => _cache_dict[k1].id # _cache_dict[k2].id)
    /\ [][last'.op = "get_auto_cache" =>
             /\ \A key \in DOMAIN _cache_dict :
                    key \in DOMAIN _cache_dict' /\ _cache_dict'[key] = _cache_dict[key]
             /\ last'.exc = NoExc =>
                    /\ last'.key \in DOMAIN _cache_dict'
                    /\ last'.ret = _cache_dict'[last'.key]
             /\ last'.exc # NoExc =>
                    /\ last'.key[1] = "default"
                    /\ _cache_dict' = _cache_dict]_vars

\* the third call asks for the triple of the first again, after another
\* triple was registered, and gets the object the first call built
C22_Witness ==
    /\ last.op = "get_auto_cache"
    /\ ops = 3
    /\ last.exc = NoExc
    /\ last.ret.id = 1
    /\ Cardinality(DOMAIN _cache_dict) = 2

\* the physical key of the cost sample of logical key k in the layer of SpecSet
CostKeyOf(k) == _add_monitoring_namespace_to_key(Namespace, time_cost_suffix, k)

\* whether the set of the latest step wrote the cost sample
CostWritten ==
    DictCache_set(dict, now, Str(CostKeyOf(last'.key)), PyInt(0), last'.ttl, last'.new,
                  last'.old).ret = PyBool(TRUE)

\* C23: AutoCache.set writes the cost sample iff it writes the value, and
\* the two entries carry the same expiry.
C23_CostPairedWithValue ==
    [][(last'.op = "aset" /\ last'.exc = NoExc) =>
          /\ CostWritten <=> last'.ret = PyBool(TRUE)
          /\ last'.ret = PyBool(TRUE) =>
                 /\ CostKeyOf(last'.key) \in DOMAIN dict'
                 /\ dict'[CostKeyOf(last'.key)].ttl = dict'[CacheKeyOf(last'.key)].ttl]_vars

\* the logical keys of SpecNs whose cost sample the layer of ns holds
SampledKeys(ns) ==
    {k \in NsKeys \cup {KeyOf(1)} : CostKeyText(ns, k) \in DOMAIN dict}

RECURSIVE CostSum(_, _)
CostSum(ns, keys) ==
    IF keys = {} THEN 0
    ELSE LET Add(k) == float(dict[CostKeyText(ns, k)].v) + CostSum(ns, keys \ {k})
         IN  Add(CHOOSE k \in keys : TRUE)

\* C24: time_cost_average() is the mean of the cost samples stored in the
\* layer's monitoring region, one per logical key, and 0 when there is none;
\* no counter value is included.
C24_AverageOfCostSamples ==
    [][last'.op = "naverage" =>
          /\ last'.exc = NoExc
          /\ SampledKeys(last'.ns) = {} => last'.ret.n = 0
          /\ SampledKeys(last'.ns) # {} =>
                 last'.ret.n * Cardinality(SampledKeys(last'.ns))
                     = CostSum(last'.ns, SampledKeys(last'.ns))
                           * (IF last'.ret.ty = "float" THEN last'.ret.len ELSE 1)]_vars

(***************************************************************************)
(* A backend whose own storage can fail (the file of FileCache, the server *)
(* of RedisCache): the failure is re-raised by the backend's error wrapper *)
(* as a subclass of its ClientError.  fault says which call of the         *)
(* memoized call meets the failure: the get of the lookup, the first set   *)
(* after the function returned, or none.                                   *)
(***************************************************************************)
Faults == {"none", "get", "set"}
BackendError == {"IOError", "FileClientError", "ClientError", "CacheError"}

\* CacheWrapper.get: the backend's get is its first call on the backend
CacheWrapper_get_on(fault, ns, d, t, key) ==
    IF fault = "get" THEN Res(PyNone, BackendError, d) ELSE CacheWrapper_get(ns, d, t, key)

_read_cache_on(fault, ns, d, t, func, args, kwargs) ==
    LET Loaded(g) ==
            IF g.exc # NoExc THEN CallRes(PyNone, g.exc, g.dict, FALSE, FALSE, kwargs, t)
            ELSE IF g.ret = PyNone
            THEN CallRes(PyNone, NoExc, g.dict, TRUE, FALSE, kwargs, t)
            ELSE CallRes(pickle_loads(g.ret.s), NoExc, g.dict, FALSE, FALSE, kwargs, t)
    IN  Loaded(CacheWrapper_get_on(fault, ns, d, t, _get_cache_key(func, args, kwargs)))

\* _update_cache: only DoNotCacheException is caught, so the error of the
\* set of the cost sample, the first call on the backend, leaves the method
_update_cache_on(fault, ns, dflt, d, t, func, args, kwargs, outcome) ==
    IF fault = "set" /\ outcome.kind = "return"
    THEN CallRes(PyNone, BackendError, d, FALSE, TRUE, kwargs, t + outcome.cost)
    ELSE _update_cache(ns, dflt, d, t, func, args, kwargs, outcome)

wrapper_on(fault, ns, dflt, d, t, func, args, kwargs, outcome) ==
    LET Popped(p) ==
            LET Read(r) ==
                    IF r.miss
                    THEN _update_cache_on(fault, ns, dflt, r.dict, t, func, args, p.kwargs,
                                          outcome)
                    ELSE r
            IN  IF p.flag
                THEN _update_cache_on(fault, ns, dflt, d, t, func, args, p.kwargs, outcome)
                ELSE Read(_read_cache_on(fault, ns, d, t, func, args, p.kwargs))
    IN  Popped(PopFlag(kwargs))

(***************************************************************************)
(* SpecFault: memoized calls of run(1) on a backend that can fail          *)
(***************************************************************************)
FCall ==
    \E kwargs \in CallKwargs, fault \in Faults : \E outcome \in Outcomes(1) :
      \E r \in {wrapper_on(fault, Namespace, default_expiry, dict, now, Func, <<PyInt(1)>>,
                           kwargs, outcome)} :
        /\ ops < MaxOps
        /\ ops' = ops + 1
        /\ dict' = r.dict
        /\ now' = r.t
        /\ last' = [n |-> Flip, op |-> "fcall", fault |-> fault,
                    forced |-> update_auto_cache \in DOMAIN kwargs,
                    invoked |-> r.invoked,
                    kind |-> IF r.invoked THEN outcome.kind ELSE "hit",
                    v |-> IF r.invoked THEN outcome.v ELSE PyNone,
                    ret |-> r.ret, exc |-> r.exc]
        /\ UNCHANGED <<shadow, memoGhosts, wrapVars, dispatched, _cache_dict, threads>>

NextFault == FCall \/ MDelete

SpecFault == InitDict /\ [][NextFault]_vars

\* C25: when the backend's set fails after the function has returned, the
\* memoized call still returns the computed value and raises nothing; when
\* the backend's get fails, the error reaches the caller and the function
\* is not invoked.
C25_WriteFailureSwallowed ==
    [][last'.op = "fcall" =>
          /\ (last'.fault = "set" /\ last'.invoked /\ last'.kind = "return") =>
                 /\ last'.exc = NoExc
                 /\ last'.ret = last'.v
          /\ (last'.fault = "get" /\ ~ last'.forced) =>
                 /\ "ClientError" \in last'.exc
                 /\ ~ last'.invoked]_vars

(***************************************************************************)
(* SpecKey: memoized calls of several decorated functions on one layer.    *)
(* A function is [module, name, adds]: inspect.getmodule(func).__name__,   *)
(* func.__name__, and what the function does, lambda x: x + adds.  Two     *)
(* lambdas of one module have the same module and the same name.           *)
(***************************************************************************)
Decorated ==
    {[module |-> "tests", name |-> "<lambda>", adds |-> 10],
     [module |-> "tests", name |-> "<lambda>", adds |-> 20],
     [module |-> "tests", name |-> "run", adds |-> 30],
     [module |-> "util", name |-> "run", adds |-> 40]}

KeyArgs == {<<PyInt(1)>>, <<PyInt(2)>>, <<PyBool(TRUE)>>}

KCall ==
    \E func \in Decorated, args \in KeyArgs, kwargs \in CallKwargs :
      \E r \in {wrapper(Namespace, default_expiry, dict, now, func, args, kwargs,
                        Return(PyInt(args[1].n + func.adds), 0))} :
        /\ ops < MaxOps
        /\ ops' = ops + 1
        /\ dict' = r.dict
        /\ now' = r.t
        /\ last' = [n |-> Flip, op |-> "kcall", func |-> func, args |-> args,
                    key |-> _get_cache_key(func, args, NoKwargs),
                    invoked |-> r.invoked, ret |-> r.ret, exc |-> r.exc]
        /\ UNCHANGED <<shadow, memoGhosts, wrapVars, dispatched, _cache_dict, threads>>

NextKey == KCall

SpecKey == InitDict /\ [][NextKey]_vars

\* C26: two memoized calls derive the same logical key iff their functions
\* have the same module name and function name and their (args, kwargs)
\* pickle to the same bytes; and a memoized call returns the value of its
\* own function for its own arguments, never one computed for a different
\* function or for different arguments.
C26_KeyIdentifiesCall ==
    [][last'.op = "kcall" =>
          /\ \A func \in Decorated, args \in KeyArgs :
                 (_get_cache_key(func, args, NoKwargs) = last'.key)
                     <=> /\ func.module = last'.func.module
                         /\ func.name = last'.func.name
                         /\ PickleCall(args, NoKwargs) = PickleCall(last'.args, NoKwargs)
          /\ last'.exc = NoExc
          /\ last'.ret = PyInt(last'.args[1].n + last'.func.adds)]_vars

(***************************************************************************)
(* SpecStampede: two callers run the memoized run(1) at the same time on   *)
(* an empty cache.  Nothing in the layer locks, so a caller can be         *)
(* preempted between any two calls of the backend: after the lookup of     *)
(* _read_cache, after func, and between the two writes of AutoCache.set.   *)
(* threads[i] is where caller i is (pc) and its locals; stamp is the step  *)
(* at which it wrote its entry.                                            *)
(***************************************************************************)
Callers == {1, 2}

\* what func returns: a function of the time of the call may differ per caller
StampedeValues == {PyInt(1), PyInt(2)}

Started == [pc |-> "read", miss |-> FALSE, invoked |-> FALSE, value |-> PyNone,
            stamp |-> 0, ret |-> PyNone, exc |-> NoExc]

\* a bug: the entry is written only if the key is still absent
_update_cache_store_if_new(ns, dflt, d, t, key, value) ==
    CacheWrapper_set(ns, dflt, d, t, key, Str(pickle_dumps(value)), dflt, TRUE, FALSE)

\* the second write of self.set(key, pickle.dumps(value), self._default_expiry, ...)
_update_cache_store(ns, dflt, d, t, key, value) ==
    CacheWrapper_set(ns, dflt, d, t, key, Str(pickle_dumps(value)), dflt, FALSE, FALSE)

TStep(i, op, th) ==
    /\ threads' = [threads EXCEPT ![i] = th]
    /\ ops' = ops + 1
    /\ last' = [n |-> Flip, op |-> op, caller |-> i]
    /\ UNCHANGED <<now, shadow, memoGhosts, wrapVars, dispatched, _cache_dict>>

TSpawn ==
    /\ threads = <<>>
    /\ threads' = [i \in Callers |-> Started]
    /\ last' = [n |-> Flip, op |-> "spawn"]
    /\ UNCHANGED <<now, dict, shadow, memoVars, wrapVars, dispatched, _cache_dict>>

\* wrapper: self._read_cache(func, args, kwargs), a hit returns
TRead(i) ==
    /\ threads # <<>> /\ threads[i].pc = "read"
    /\ \E r \in {_read_cache(Namespace, dict, now, Func, <<PyInt(1)>>, NoKwargs)} :
          /\ dict' = r.dict
          /\ TStep(i, "read",
                   IF r.exc # NoExc
                   THEN [threads[i] EXCEPT !.pc = "done", !.exc = r.exc]
                   ELSE IF r.miss
                   THEN [threads[i] EXCEPT !.pc = "invoke", !.miss = TRUE]
                   ELSE [threads[i] EXCEPT !.pc = "done", !.ret = r.ret])

\* _update_cache: value = func(*args, **kwargs)
TInvoke(i) ==
    /\ threads # <<>> /\ threads[i].pc = "invoke"
    /\ \E v \in StampedeValues :
          TStep(i, "invoke", [threads[i] EXCEPT !.pc = "cost", !.invoked = TRUE, !.value = v])
    /\ UNCHANGED dict

\* AutoCache.set: the write of the cost sample
TSetCost(i) ==
    /\ threads # <<>> /\ threads[i].pc = "cost"
    /\ \E w \in {DictCache_set(dict, now, Str(CostKey(1)), PyFloat(0), default_expiry,
                                FALSE, FALSE)} :
          /\ dict' = w.dict
          /\ TStep(i, "set_cost",
                   IF w.exc # NoExc
                   THEN [threads[i] EXCEPT !.pc = "done", !.exc = w.exc]
                   ELSE [threads[i] EXCEPT !.pc = "store"])

\* AutoCache.set: the write of the entry
TSetValue(i) ==
    /\ threads # <<>> /\ threads[i].pc = "store"
    /\ \E w \in {_update_cache_store(Namespace, default_expiry, dict, now, KeyOf(1),
                                      threads[i].value)} :
          /\ dict' = w.dict
          /\ TStep(i, "set_value",
                   IF w.exc # NoExc
                   THEN [threads[i] EXCEPT !.pc = "done", !.exc = w.exc]
                   ELSE [threads[i] EXCEPT !.pc = "return", !.stamp = ops + 1])

\* _update_cache: return value
TReturn(i) ==
    /\ threads # <<>> /\ threads[i].pc = "return"
    /\ TStep(i, "return", [threads[i] EXCEPT !.pc = "done", !.ret = threads[i].value])
    /\ UNCHANGED dict

TCaller(i) == TRead(i) \/ TInvoke(i) \/ TSetCost(i) \/ TSetValue(i) \/ TReturn(i)

NextStampede == TSpawn \/ \E i \in Callers : TCaller(i)

\* every caller that can take a step is scheduled again
SpecStampede ==
    InitDict /\ [][NextStampede]_vars /\ WF_vars(NextStampede)

AllReturned == threads # <<>> /\ \A i \in Callers : threads[i].pc = "done"

\* the caller whose write of the entry ran last
LastWriter == CHOOSE i \in Callers : \A j \in Callers : threads[j].stamp <= threads[i].stamp

\* C27: in every interleaving of two concurrent calls of run(1) on an empty
\* cache both calls return, each its own result or the cached one, and once
\* both have returned the entry left is the result of the caller whose set
\* ran last.
C27_StampedeLastWriterWins ==
    /\ <>AllReturned
    /\ [](AllReturned =>
            /\ \A i \in Callers :
                   /\ threads[i].exc = NoExc
                   /\ threads[i].ret \in StampedeValues
            /\ GetThrough(Namespace, dict, now, KeyOf(1))
                   = Str(pickle_dumps(threads[LastWriter].value)))

\* both callers observed a miss, both invoked func with different results,
\* and both have returned
C27_Witness ==
    /\ AllReturned
    /\ \A i \in Callers : threads[i].miss /\ threads[i].invoked
    /\ threads[1].value # threads[2].value
    /\ threads[1].stamp > threads[2].stamp

(***************************************************************************)
(* SpecRace: two callers run DictCache.set on the absent key "a" at the    *)
(* same time.  set reads the key (self.get) and writes it                  *)
(* (self._dict[key] = ...) in two statements with no lock between them.    *)
(* threads[i] holds the arguments and locals of caller i, and the steps    *)
(* (checked, wrote) at which it ran the two statements.                    *)
(***************************************************************************)
RaceKey == "a"
RaceValues == {Str("x"), Str("y")}

\* a bug: the flags are not tested
DictCache_set_check_unflagged(d, t, key, only_if_new, only_if_old) ==
    LET k == transcode(key).s
        Checked(g) == [set_flag |-> TRUE, dict |-> g.dict]
    IN  Checked(DictCache_get(d, t, Str(k)))

\* DictCache.set up to the test of _set_flag: [set_flag, dict]
DictCache_set_check(d, t, key, only_if_new, only_if_old) ==
    LET k == transcode(key).s
        Checked(g) ==
            LET key_in_cache == g.ret # PyNone
            IN  [set_flag |-> /\ ~(only_if_new /\ key_in_cache)
                              /\ ~(only_if_old /\ ~key_in_cache),
                 dict |-> g.dict]
    IN  Checked(DictCache_get(d, t, Str(k)))

\* DictCache.set from the test of _set_flag
DictCache_set_write(d, t, key, value, expire_seconds, set_flag) ==
    IF set_flag
    THEN Res(PyBool(TRUE), NoExc,
             Put(d, transcode(key).s, Entry(transcode(value).s, t, expire_seconds)))
    ELSE Res(PyBool(FALSE), NoExc, d)

RSpawn ==
    /\ threads = <<>>
    /\ \E value \in [Callers -> RaceValues], only_if_new \in [Callers -> BOOLEAN] :
          threads' = [i \in Callers |->
                        [pc |-> "check", value |-> value[i], only_if_new |-> only_if_new[i],
                         set_flag |-> FALSE, checked |-> 0, wrote |-> 0, ret |-> PyNone]]
    /\ last' = [n |-> Flip, op |-> "spawn"]
    /\ UNCHANGED <<now, dict, shadow, memoVars, wrapVars, dispatched, _cache_dict>>

RCheck(i) ==
    /\ threads # <<>> /\ threads[i].pc = "check"
    /\ \E c \in {DictCache_set_check(dict, now, Str(RaceKey), threads[i].only_if_new, FALSE)} :
          /\ dict' = c.dict
          /\ TStep(i, "check", [threads[i] EXCEPT !.pc = "write", !.set_flag = c.set_flag,
                                                   !.checked = ops + 1])

RWrite(i) ==
    /\ threads # <<>> /\ threads[i].pc = "write"
    /\ \E w \in {DictCache_set_write(dict, now, Str(RaceKey), threads[i].value, NoneTtl,
                                      threads[i].set_flag)} :
          /\ dict' = w.dict
          /\ TStep(i, "write", [threads[i] EXCEPT !.pc = "done", !.ret = w.ret,
                                                   !.wrote = ops + 1])

NextRace == RSpawn \/ \E i \in Callers : RCheck(i) \/ RWrite(i)

SpecRace == InitDict /\ [][NextRace]_vars

BothSetIfNew ==
    /\ AllReturned
    /\ \A i \in Callers : threads[i].only_if_new

\* caller i had returned before caller j entered
Before(i, j) == threads[i].wrote < threads[j].checked

\* C28: of two set(k, v, only_if_new=True) on an absent key run one after
\* the other exactly one returns true, the first, and its value stays; when
\* both return true they overlapped, and the value left is that of the
\* later write.
C28_OnlyIfNewNotAtomic ==
    BothSetIfNew =>
        \A i \in Callers : \A j \in Callers \ {i} :
            /\ Before(i, j) =>
                   /\ threads[i].ret = PyBool(TRUE)
                   /\ threads[j].ret = PyBool(FALSE)
                   /\ dict[RaceKey].v = threads[i].value.s
            /\ (threads[i].ret = PyBool(TRUE) /\ threads[j].ret = PyBool(TRUE)) =>
                   /\ ~ Before(i, j)
                   /\ threads[i].wrote < threads[j].wrote => dict[RaceKey].v = threads[j].value.s

\* both callers returned true and the second write replaced the first value
C28_Witness ==
    /\ BothSetIfNew
    /\ \A i \in Callers : threads[i].ret = PyBool(TRUE)
    /\ threads[1].wrote < threads[2].wrote
    /\ threads[1].value # threads[2].value
    /\ dict[RaceKey].v = threads[2].value.s

(***************************************************************************)
(* SpecExpiry: memoized calls on a layer whose default expiry is a number  *)
(* of seconds, with the clock advancing by any amount between the calls    *)
(***************************************************************************)
ExpiryDefaults == {0, 1}

InitExpiry ==
    /\ InitCommon
    /\ shadow = NoShadow
    /\ default_expiry \in ExpiryDefaults

ETick ==
    \E seconds \in 1..MaxTime :
        /\ ops < MaxOps
        /\ ops' = ops + 1
        /\ now' = now + seconds
        /\ last' = [n |-> Flip, op |-> "tick"]
        /\ UNCHANGED <<dict, shadow, memoGhosts, wrapVars, dispatched, _cache_dict, threads>>

NextExpiry == Call \/ ETick

SpecExpiry == InitExpiry /\ [][NextExpiry]_vars

\* C29: a plain call of run(a) that finds the entry stored at time s by a
\* layer with default expiry d returns the stored result without invoking
\* the function while now - s <= d; once now - s > d it misses, invokes the
\* function and, when the function returns, stores a new entry with expiry
\* d whose age starts at the time of that write.
C29_ServedUntilDefaultExpiry ==
    [][(last'.op = "call" /\ ~ last'.forced /\ CacheKey(last'.a) \in DOMAIN dict) =>
          \E stored \in {dict[CacheKey(last'.a)]} :
              /\ stored.ttl = default_expiry
              /\ now - stored.s <= default_expiry =>
                     /\ ~ last'.invoked
                     /\ last'.ret = lastRet[last'.a]
                     /\ dict'[CacheKey(last'.a)] = stored
              /\ now - stored.s > default_expiry =>
                     /\ last'.invoked
                     /\ last'.kind = "return" =>
                            /\ last'.ret = last'.v
                            /\ dict'[CacheKey(last'.a)] =
                                   Entry(pickle_dumps(last'.v), now', default_expiry)]_vars

\* with default expiry 1, run(1) was computed by a plain call, its entry
\* expired, and the next plain call computed it again and stored it anew
C29_Witness ==
    /\ default_expiry = 1
    /\ pure
    /\ last.op = "call" /\ last.a = 1 /\ last.invoked /\ last.kind = "return"
    /\ run_times[1] = 2
    /\ dict[CacheKey(1)].s = now

(***************************************************************************)
(* SpecCount: two callers run CacheWrapper.get at the same time on one     *)
(* wrapper over a DictCache.  get looks the key up and then calls          *)
(* Cache.increase on a counter, which reads the counter (self.get) and     *)
(* writes it back (self.set) with no lock between the two.                 *)
(***************************************************************************)
\* Cache.increase after value = self.get(key)
Cache_increase_store(d, t, key, value, amount) ==
    LET increased_value ==
            IF value = PyNone THEN PyStr(PyInt(amount))
            ELSE PyStr(PyInt(IntOfDigits(value.s, 0) + amount))
        Stored(w) == Res(Str(increased_value), w.exc, w.dict)
    IN  IF value = PyNone \/ (value.ty \in {"str", "unicode"} /\ isdigit(value.s))
        THEN Stored(DictCache_set(d, t, key, Str(increased_value), NoneTtl, FALSE, FALSE))
        ELSE Res(PyNone, WrappedValueError, d)

\* a key is stored before the callers start, so that a get can be a hit
CStore ==
    /\ threads = <<>> /\ dict = EmptyDict
    /\ \E k \in WKeys :
          dict' = CacheWrapper_set(Namespace, default_expiry, dict, now, k, Str("x"),
                                   NoneTtl, FALSE, FALSE).dict
    /\ last' = [n |-> Flip, op |-> "store"]
    /\ UNCHANGED <<now, shadow, memoVars, wrapVars, dispatched, _cache_dict, threads>>

CSpawn ==
    /\ threads = <<>>
    /\ \E key \in [Callers -> WKeys] :
          threads' = [i \in Callers |->
                        [pc |-> "lookup", key |-> key[i], value |-> PyNone,
                         counter |-> "", count |-> PyNone, exc |-> NoExc]]
    /\ last' = [n |-> Flip, op |-> "spawn"]
    /\ UNCHANGED <<now, dict, shadow, memoVars, wrapVars, dispatched, _cache_dict>>

\* value = self._wrapped_cache.get(key), and the choice of the counter
CLookup(i) ==
    /\ threads # <<>> /\ threads[i].pc = "lookup"
    /\ \E g \in {DictCache_get(dict, now,
                                Str(_add_cache_namespace_to_key(Namespace, threads[i].key)))} :
          /\ dict' = g.dict
          /\ TStep(i, "lookup",
                   [threads[i] EXCEPT !.pc = "load", !.value = g.ret,
                                      !.counter = IF g.ret = PyNone
                                                  THEN _misses_key(Namespace)
                                                  ELSE _hits_key(Namespace)])

\* Cache.increase: value = self.get(key)
CLoad(i) ==
    /\ threads # <<>> /\ threads[i].pc = "load"
    /\ \E g \in {DictCache_get(dict, now, Str(threads[i].counter))} :
          /\ dict' = g.dict
          /\ TStep(i, "load", [threads[i] EXCEPT !.pc = "save", !.count = g.ret])

\* Cache.increase: self.set(key, increased_value), and the return of get
CSave(i) ==
    /\ threads # <<>> /\ threads[i].pc = "save"
    /\ \E w \in {Cache_increase_store(dict, now, Str(threads[i].counter),
                                       threads[i].count, 1)} :
          /\ dict' = w.dict
          /\ TStep(i, "save", [threads[i] EXCEPT !.pc = "done", !.exc = w.exc])

NextCount == CStore \/ CSpawn \/ \E i \in Callers : CLookup(i) \/ CLoad(i) \/ CSave(i)

SpecCount == InitDict /\ [][NextCount]_vars

\* C30: once all the concurrent gets on the wrapper have completed,
\* hits() + misses() is the number of get calls: no increment is lost.
C30_NoIncrementLost ==
    AllReturned =>
        CacheWrapper_hits(Namespace, dict, now).ret.n
            + CacheWrapper_misses(Namespace, dict, now).ret.n = Cardinality(Callers)

(***************************************************************************)
(* Claims about expired entries of the in-memory backend (SpecDict)        *)
(***************************************************************************)
\* C31: an expired entry is absent to get_keys and to delete as it is to
\* get: at any time get_keys(pattern) lists only keys that get would find
\* present, and delete(keys) counts only the keys that were present and
\* not expired before the call.
C31_ExpiredAbsentEverywhere ==
    /\ [](\A pattern \in Patterns :
             \A k \in DictCache_get_keys(dict, Str(pattern)) :
                 DictCache_get(dict, now, Str(k)).ret # PyNone)
    /\ [][last'.op = "delete" =>
             last'.ret = PyInt(Cardinality({k \in last'.keys : Live(dict, now, k)}))]_vars

(***************************************************************************)
(* SpecStale: DictCache.set with one flag or none, on keys whose entries   *)
(* may have expired; a step remembers whether it found an expired entry    *)
(***************************************************************************)
QSet ==
    \E k \in RawKeys, v \in SetValues, ttl \in TTLs, new \in BOOLEAN, old \in BOOLEAN :
      \E r \in {DictCache_set(dict, now, Str(k), v, ttl, new, old)} :
        /\ dict' = r.dict
        /\ last' = [n |-> Flip, op |-> "set", key |-> k, val |-> v, ttl |-> ttl,
                    new |-> new, old |-> old, ret |-> r.ret, exc |-> r.exc,
                    stale |-> k \in DOMAIN dict /\ ~ Live(dict, now, k)]
        /\ UNCHANGED <<now, shadow, memoVars, wrapVars, dispatched, _cache_dict, threads>>

NextStale == QSet \/ Tick

SpecStale == InitDict /\ [][NextStale]_vars

\* C32: a conditional set treats an expired entry as absent: with
\* only_if_new it writes the value and returns True; with only_if_old it
\* returns False and leaves the key absent, the expired entry removed.
C32_ConditionalSetOnExpired ==
    [][(last'.op = "set" /\ last'.stale) =>
          /\ (last'.new /\ ~ last'.old) =>
                 /\ last'.ret = PyBool(TRUE)
                 /\ dict'[last'.key] = Entry(transcode(last'.val).s, now, last'.ttl)
          /\ (last'.old /\ ~ last'.new) =>
                 /\ last'.ret = PyBool(FALSE)
                 /\ last'.key \notin DOMAIN dict']_vars

\* a set with only_if_old found an expired entry, returned False and the
\* key is gone
C32_Witness ==
    /\ last.op = "set" /\ last.stale
    /\ last.old /\ ~ last.new
    /\ last.ret = PyBool(FALSE)
    /\ last.key \notin DOMAIN dict

(***************************************************************************)
(* Claims about the counters under memoized calls (Spec)                   *)
(***************************************************************************)
\* C33: a plain memoized call adds exactly 1 to one counter and nothing to
\* the other: to hits when it is served from the cache, to misses when it
\* invokes the function, also when the function raises
\* DoNotCacheException; a call with update_auto_cache=True leaves hits()
\* and misses() as they were.
C33_CallCountsOnce ==
    [][last'.op = "call" =>
          /\ last'.exc = NoExc
          /\ last'.forced =>
                 /\ last'.invoked
                 /\ Hits(dict', now') = Hits(dict, now)
                 /\ Misses(dict', now') = Misses(dict, now)
          /\ (~ last'.forced /\ last'.invoked) =>
                 /\ Misses(dict', now') = Misses(dict, now) + 1
                 /\ Hits(dict', now') = Hits(dict, now)
          /\ (~ last'.forced /\ ~ last'.invoked) =>
                 /\ Hits(dict', now') = Hits(dict, now) + 1
                 /\ Misses(dict', now') = Misses(dict, now)]_vars

\* after a plain call that computed and a plain call that was served, a
\* forced call has left one miss and one hit counted
C33_Witness ==
    /\ last.op = "call" /\ last.forced
    /\ last.prev.op = "call" /\ ~ last.prev.forced /\ ~ last.prev.invoked
    /\ Hits(dict, now) = 1
    /\ Misses(dict, now) = 1

(***************************************************************************)
(* Claims about what delete and clear leave alone (SpecNs)                 *)
(***************************************************************************)
\* whether the physical key is a cache-region key of namespace ns
InCacheRegion(ns, key) ==
    _add_cache_namespace_to_key(ns, _remove_cache_namespace_from_key(ns, key)) = key

\* C34: delete(*keys) and clear() through the layer of a namespace remove
\* only cache-region entries of that namespace: every other entry of the
\* backend, the cost samples and the two counters among them, stays as it
\* was, and time_cost_average(), hits() and misses() of the layer return
\* right after the call what they returned right before it.
C34_DeleteClearKeepMonitoring ==
    [][last'.op \in {"ndelete", "nclear"} =>
          /\ \A key \in DOMAIN dict :
                 ~ InCacheRegion(last'.ns, key) =>
                     key \in DOMAIN dict' /\ dict'[key] = dict[key]
          /\ AutoCache_time_cost_average(last'.ns, dict', now').ret
                 = AutoCache_time_cost_average(last'.ns, dict, now).ret
          /\ CacheWrapper_hits(last'.ns, dict', now').ret
                 = CacheWrapper_hits(last'.ns, dict, now).ret
          /\ CacheWrapper_misses(last'.ns, dict', now').ret
                 = CacheWrapper_misses(last'.ns, dict, now).ret]_vars

====
